---- MODULE Spec2Model ----
(***************************************************************************)
(* Stock ledger and reservation engine of django-stockman                  *)
(* (stockman.service.Stock over the Quant, Move and Hold models).          *)
(*                                                                         *)
(* The database is the state: the rows of Quant, Move and Hold, the row    *)
(* locks that open transactions hold, and the clock.  Each client process  *)
(* runs one engine operation at a time; an operation is a sequence of      *)
(* steps, one per statement of the source at which the transaction reads   *)
(* committed data or waits for a row lock.  The writes of a transaction    *)
(* become visible to the other processes in its last step (its commit).    *)
(***************************************************************************)
EXTENDS Integers, Sequences, FiniteSets, TLC

\* ---------------------------------------------------------------- bounds
\* Reservation specifications: few Moves, two Holds.
MaxQuants == 2
MaxMoves == 2
MaxHolds == 2
MaxTime == 1
\* Ledger specifications: room for plan and realize, one Hold.
MaxLedgerMoves == 4
MaxLedgerHolds == 1

\* ------------------------------------------------------- values and nulls
NoQuant == 0
NoPos == 0
NoDate == 0
NoExpiry == 0 - 1
NoShelf == 0 - 1
NoTime == 0 - 1

Procs == {"p1", "p2"}
Products == {"croissant"}
Today == 1
Policies == {"stock_only", "planned_ok", "demand_ok"}

PENDING == "pending"
CONFIRMED == "confirmed"
FULFILLED == "fulfilled"
RELEASED == "released"
HoldStatus == {PENDING, CONFIRMED, FULFILLED, RELEASED}

VARIABLES quants, moves, holds, now, policy, shelflife, st, last

vars == <<quants, moves, holds, now, policy, shelflife, st, last>>
db == <<quants, moves, holds>>

\* ------------------------------------------------------------- arithmetic
RECURSIVE SumTo(_, _)
SumTo(f, n) == IF n = 0 THEN 0 ELSE f[n] + SumTo(f, n - 1)

QuantIds == 1..Len(quants)
HoldIds == 1..Len(holds)
MoveIds == 1..Len(moves)

\* ------------------------------------------------------ process-local state
\* pc: the statement the process is at; the other fields are the local
\* variables of the operation it runs.  qlocks and hlocks are the Quant and
\* Hold rows its open transaction has locked.
Idle == [pc |-> "idle", prod |-> "", qty |-> 0, pos |-> NoPos, date |-> NoDate, exp |-> NoExpiry,
         h |-> 0, q |-> NoQuant, phys |-> NoQuant, av |-> 0, rq |-> 0, t |-> NoTime,
         newq |-> 0, id |-> <<>>,
         qlocks |-> {}, hlocks |-> {}]

\* What the last finished operation returned or raised.
\* track: the operations whose results the specification records.
\* n: flips with every recorded result, so that two equal results differ.
\* arg: the Hold pk the call resolved to (confirm, release, fulfill).
\* id: the hold_id string of a call that failed to parse.
NoResult == [track |-> {}, n |-> 0, op |-> "none", code |-> "none", available |-> 0,
             requested |-> 0, value |-> 0, arg |-> 0, id |-> <<>>]

HoldResult(op, code, h) == [NoResult EXCEPT !.op = op, !.code = code, !.arg = h]

Result(op, code, value) == [NoResult EXCEPT !.op = op, !.code = code, !.value = value]

StockError(op, code, av, req) ==
    [NoResult EXCEPT !.op = op, !.code = code, !.available = av, !.requested = req]

\* Row locks (select_for_update, and the row lock an UPDATE takes) are held
\* until the transaction ends.
QuantLockedByOther(p, q) == \E o \in Procs \ {p} : q \in st[o].qlocks
HoldLockedByOther(p, h) == \E o \in Procs \ {p} : h \in st[o].hlocks

\* Rows that the open transactions may still insert: the bounds are
\* reserved when an operation starts, so that no started operation is cut.
MovesNeeded(s) ==
    CASE s.pc \in {"receive_create", "receive_move"} -> 1
      [] s.pc \in {"issue_move", "adjust_lock", "adjust_move", "fulfill_quant"} -> 1
      [] s.pc \in {"realize_lock", "realize_get", "realize_commit"} -> 3
      [] OTHER -> 0

QuantsNeeded(s) ==
    CASE s.pc = "receive_create" -> 1
      [] s.pc \in {"realize_lock", "realize_get", "realize_commit"} -> s.rq
      [] OTHER -> 0

HoldsNeeded(s) == IF s.pc \in {"hold_find", "hold_lock"} THEN 1 ELSE 0

RECURSIVE SumOver(_, _)
SumOver(S, f) ==
    IF S = {} THEN 0
    ELSE LET x == CHOOSE y \in S : TRUE IN f[x] + SumOver(S \ {x}, f)

RoomForMoves(D, n) ==
    Len(moves) + SumOver(Procs, [p \in Procs |-> MovesNeeded(st[p])]) + n <= D.moves

RoomForQuants(D, n) ==
    Len(quants) + SumOver(Procs, [p \in Procs |-> QuantsNeeded(st[p])]) + n <= D.quants

RoomForHolds(D, n) ==
    Len(holds) + SumOver(Procs, [p \in Procs |-> HoldsNeeded(st[p])]) + n <= D.holds

\* ------------------------------------------------------------------ models
\* Quant row.
NewQuant(product, position, target_date) ==
    [product |-> product, position |-> position, target_date |-> target_date,
     batch |-> "", qty |-> 0, created |-> Today]

\* Move row.
NewMove(q, delta, reason, h) == [quant |-> q, delta |-> delta, reason |-> reason, hold |-> h]

\* Hold row.
NewHold(product, q, quantity, target_date, expires_at) ==
    [product |-> product, quant |-> q, quantity |-> quantity, target_date |-> target_date,
     status |-> PENDING, expires_at |-> expires_at, resolved_at |-> NoTime,
     release_reason |-> ""]

\* Move.save of a new Move: UPDATE quant SET _quantity = _quantity + delta,
\* an add on the stored value; `fetched` is the value the caller's Quant
\* object was loaded with, which the update does not use.
MoveSaveStale(qs, q, delta, fetched) == [qs EXCEPT ![q].qty = fetched + delta]

MoveSave(qs, q, delta, fetched) == [qs EXCEPT ![q].qty = @ + delta]

\* Rows of Quant at a coordinate (batch is always '').
QuantsAt(product, position, target_date) ==
    {i \in QuantIds : /\ quants[i].product = product
                      /\ quants[i].position = position
                      /\ quants[i].target_date = target_date
                      /\ quants[i].batch = ""}

\* Stock.get_quant: the first row at the coordinate, or none.
get_quant(product, position, target_date) ==
    LET S == QuantsAt(product, position, target_date)
    IN IF S = {} THEN NoQuant ELSE CHOOSE i \in S : \A j \in S : i <= j

\* unique_quant_coordinate: a UNIQUE index over (content_type, object_id,
\* position, target_date, batch).  SQL compares NULLs as distinct, so a row
\* whose position or target_date is NULL never conflicts with another row.
UniqueViolationStrict(product, position, target_date) ==
    QuantsAt(product, position, target_date) # {}

UniqueViolation(product, position, target_date) ==
    /\ position # NoPos
    /\ target_date # NoDate
    /\ QuantsAt(product, position, target_date) # {}

\* Hold.is_active / the (status, expires_at) filter of every held sum.
is_active_ignoring_expiry(hr) == hr.status \in {PENDING, CONFIRMED}

is_active_pending_only(hr) ==
    /\ hr.status = PENDING
    /\ (hr.expires_at = NoExpiry \/ hr.expires_at >= now)

is_active(hr) ==
    /\ hr.status \in {PENDING, CONFIRMED}
    /\ (hr.expires_at = NoExpiry \/ hr.expires_at >= now)

\* The sweeper's filter: status in (PENDING, CONFIRMED) and expires_at < now.
is_expired_pending_only(hr) ==
    /\ hr.status = PENDING
    /\ hr.expires_at # NoExpiry
    /\ hr.expires_at < now

is_expired_any_status(hr) ==
    /\ hr.expires_at # NoExpiry
    /\ hr.expires_at < now

is_expired_inclusive(hr) ==
    /\ hr.status \in {PENDING, CONFIRMED}
    /\ hr.expires_at # NoExpiry
    /\ hr.expires_at <= now

is_expired(hr) ==
    /\ hr.status \in {PENDING, CONFIRMED}
    /\ hr.expires_at # NoExpiry
    /\ hr.expires_at < now

\* Quant.held and Quant.available.
held(q) ==
    SumTo([i \in HoldIds |-> IF holds[i].quant = q /\ is_active(holds[i])
                             THEN holds[i].quantity ELSE 0], Len(holds))

quant_available(q) == quants[q].qty - held(q)

\* The perishability window of available() and _find_quant_for_hold().
valid_for_date_until_target(qr, target) ==
    IF shelflife # NoShelf
    THEN LET min_production == target - shelflife
         IN \/ (qr.target_date = NoDate /\ qr.created >= min_production)
            \/ (qr.target_date # NoDate /\ qr.target_date <= target)
    ELSE qr.target_date = NoDate \/ qr.target_date <= target

valid_for_date(qr, target) ==
    IF shelflife # NoShelf
    THEN LET min_production == target - shelflife
         IN \/ (qr.target_date = NoDate /\ qr.created >= min_production)
            \/ (qr.target_date # NoDate /\ qr.target_date >= min_production
                                        /\ qr.target_date <= target)
    ELSE qr.target_date = NoDate \/ qr.target_date <= target

\* Stock.committed, Stock.demand, Stock.available (no position filter).
committed_bound_only(product, target) ==
    SumTo([i \in HoldIds |-> IF /\ holds[i].product = product
                                /\ holds[i].target_date = target
                                /\ holds[i].quant # NoQuant
                                /\ is_active(holds[i])
                             THEN holds[i].quantity ELSE 0], Len(holds))

committed(product, target) ==
    SumTo([i \in HoldIds |-> IF /\ holds[i].product = product
                                /\ holds[i].target_date = target
                                /\ is_active(holds[i])
                             THEN holds[i].quantity ELSE 0], Len(holds))

demand(product, target) ==
    SumTo([i \in HoldIds |-> IF /\ holds[i].product = product
                                /\ holds[i].target_date = target
                                /\ holds[i].quant = NoQuant
                                /\ is_active(holds[i])
                             THEN holds[i].quantity ELSE 0], Len(holds))

available(product, target) ==
    SumTo([i \in QuantIds |-> IF quants[i].product = product /\ valid_for_date(quants[i], target)
                              THEN quants[i].qty ELSE 0], Len(quants))
    - committed(product, target)

\* Stock.available with a position: the Quants are filtered to the position,
\* the held sum is the one of available() without position.
available_at(product, target, position) ==
    SumTo([i \in QuantIds |-> IF /\ quants[i].product = product
                                 /\ quants[i].position = position
                                 /\ valid_for_date(quants[i], target)
                              THEN quants[i].qty ELSE 0], Len(quants))
    - committed(product, target)

\* Stock._find_quant_for_hold: oldest valid Quant whose own availability suffices.
find_quant_for_hold_strict(product, target, quantity) ==
    LET S == {i \in QuantIds : /\ quants[i].product = product
                               /\ valid_for_date(quants[i], target)
                               /\ quant_available(i) > quantity}
    IN IF S = {} THEN NoQuant ELSE CHOOSE i \in S : \A j \in S : i <= j

\* An allocation that takes the newest sufficient Quant.
find_quant_for_hold_newest(product, target, quantity) ==
    LET S == {i \in QuantIds : /\ quants[i].product = product
                               /\ valid_for_date(quants[i], target)
                               /\ quant_available(i) >= quantity}
    IN IF S = {} THEN NoQuant ELSE CHOOSE i \in S : \A j \in S : i >= j

find_quant_for_hold(product, target, quantity) ==
    LET S == {i \in QuantIds : /\ quants[i].product = product
                               /\ valid_for_date(quants[i], target)
                               /\ quant_available(i) >= quantity}
    IN IF S = {} THEN NoQuant ELSE CHOOSE i \in S : \A j \in S : i <= j


\* The locked re-check of hold(): quant.available >= quantity.
hold_recheck_skipped(q, quantity) == TRUE

hold_recheck(q, quantity) == quant_available(q) >= quantity

\* The locked check of issue(): not (locked_quant.available < quantity).
issue_check_balance_only(q, quantity) == ~(quants[q].qty < quantity)

issue_check(q, quantity) == ~(quant_available(q) < quantity)

\* The status checks of confirm(), release() and fulfill().
confirm_allowed_active(hr) == hr.status \in {PENDING, CONFIRMED}

confirm_allowed(hr) == hr.status = PENDING

release_allowed_any(hr) == TRUE

release_allowed(hr) == hr.status \in {PENDING, CONFIRMED}

fulfill_allowed_demand_first(hr) == hr.status = CONFIRMED \/ hr.quant = NoQuant

fulfill_allowed_unchecked(hr) == hr.status \in {CONFIRMED, FULFILLED}

fulfill_allowed(hr) == hr.status = CONFIRMED

\* ------------------------------------------------------------------- Init
\* The empty database; the product's policy and shelf life are fixed
\* attributes drawn from C.
InitOf(C) ==
    /\ quants = <<>>
    /\ moves = <<>>
    /\ holds = <<>>
    /\ now = 0
    /\ policy \in C.policy
    /\ shelflife \in C.shelflife
    /\ st = [p \in Procs |-> Idle]
    /\ last = [NoResult EXCEPT !.track = C.track]

\* An operation ends: the transaction commits or rolls back, its row locks go.
Finish(p, res) ==
    /\ st' = [st EXCEPT ![p] = Idle]
    /\ last' = IF res.op \in last.track
               THEN [res EXCEPT !.track = last.track, !.n = 1 - last.n]
               ELSE last

Goto(p, s) == st' = [st EXCEPT ![p] = s] /\ UNCHANGED last

config == <<policy, shelflife>>

\* ---------------------------------------------------------------- receive
\* Stock.receive: validation, then the SELECT of get_or_create.
receive_call(p, D, quantity, product, position, target_date) ==
    /\ st[p].pc = "idle"
    /\ IF quantity <= 0
       THEN Finish(p, StockError("receive", "INVALID_QUANTITY", 0, quantity))
       ELSE LET S == QuantsAt(product, position, target_date)
                s == [Idle EXCEPT !.prod = product, !.qty = quantity,
                                  !.pos = position, !.date = target_date]
            IN /\ RoomForMoves(D, 1)
               /\ CASE Cardinality(S) = 0 ->
                         /\ RoomForQuants(D, 1)
                         /\ Goto(p, [s EXCEPT !.pc = "receive_create"])
                    [] Cardinality(S) = 1 ->
                         LET q == CHOOSE i \in S : TRUE
                         IN Goto(p, [s EXCEPT !.pc = "receive_move", !.q = q,
                                              !.av = quants[q].qty])
                    [] OTHER -> Finish(p, Result("receive", "MultipleObjectsReturned", 0))
    /\ UNCHANGED <<db, now, config>>

receive(p, D) ==
    \E quantity \in D.qty, product \in Products, position \in D.pos, target_date \in D.date :
        receive_call(p, D, quantity, product, position, target_date)

\* Stock.plan: receive with a target date.
plan(p, D) ==
    \E quantity \in D.qty, product \in Products, position \in D.ppos,
       target_date \in D.date \ {NoDate} :
        receive_call(p, D, quantity, product, position, target_date)

\* get_or_create: INSERT; on IntegrityError the existing row is fetched.
\* Then Move.objects.create and commit.
receive_create(p) ==
    /\ st[p].pc = "receive_create"
    /\ IF UniqueViolation(st[p].prod, st[p].pos, st[p].date)
       THEN LET q == get_quant(st[p].prod, st[p].pos, st[p].date)
            IN /\ Goto(p, [st[p] EXCEPT !.pc = "receive_move", !.q = q, !.av = quants[q].qty])
               /\ UNCHANGED db
       ELSE LET q == Len(quants) + 1
                qs == Append(quants, NewQuant(st[p].prod, st[p].pos, st[p].date))
            IN /\ quants' = MoveSave(qs, q, st[p].qty, 0)
               /\ moves' = Append(moves, NewMove(q, st[p].qty, "receive", 0))
               /\ UNCHANGED holds
               /\ Finish(p, Result("receive", "OK", 0))
    /\ UNCHANGED <<now, config>>

\* Move.objects.create on the fetched Quant; the UPDATE waits for its row lock.
receive_move(p) ==
    /\ st[p].pc = "receive_move"
    /\ ~QuantLockedByOther(p, st[p].q)
    /\ quants' = MoveSave(quants, st[p].q, st[p].qty, st[p].av)
    /\ moves' = Append(moves, NewMove(st[p].q, st[p].qty, "receive", 0))
    /\ Finish(p, Result("receive", "OK", 0))
    /\ UNCHANGED <<holds, now, config>>

\* ------------------------------------------------------------------ issue
\* Stock.issue: validation, select_for_update on the Quant, the check.
issue(p, D) ==
    \E quantity \in D.qty, q \in QuantIds :
        /\ st[p].pc = "idle"
        /\ IF quantity <= 0
           THEN Finish(p, StockError("issue", "INVALID_QUANTITY", 0, quantity))
           ELSE /\ ~QuantLockedByOther(p, q)
                /\ RoomForMoves(D, 1)
                /\ IF issue_check(q, quantity)
                   THEN Goto(p, [Idle EXCEPT !.pc = "issue_move", !.q = q, !.qty = quantity,
                                             !.av = quants[q].qty, !.qlocks = {q}])
                   ELSE Finish(p, StockError("issue", "INSUFFICIENT_QUANTITY",
                                             quant_available(q), quantity))
        /\ UNCHANGED <<db, now, config>>

\* Move.objects.create(delta=-quantity) and commit.
issue_move(p) ==
    /\ st[p].pc = "issue_move"
    /\ quants' = MoveSave(quants, st[p].q, 0 - st[p].qty, st[p].av)
    /\ moves' = Append(moves, NewMove(st[p].q, 0 - st[p].qty, "issue", 0))
    /\ Finish(p, Result("issue", "OK", 0))
    /\ UNCHANGED <<holds, now, config>>

\* ----------------------------------------------------------------- adjust
\* select_for_update on the Quant and delta = new_quantity - _quantity.
adjust_locked_unlocked(p, q, new_quantity) ==
    /\ LET delta == new_quantity - quants[q].qty
       IN IF delta = 0
          THEN Finish(p, Result("adjust", "OK", 0))
          ELSE Goto(p, [Idle EXCEPT !.pc = "adjust_move", !.q = q, !.qty = delta,
                                    !.newq = new_quantity, !.av = quants[q].qty])
    /\ UNCHANGED <<db, now, config>>

adjust_locked(p, q, new_quantity) ==
    /\ ~QuantLockedByOther(p, q)
    /\ LET delta == new_quantity - quants[q].qty
       IN IF delta = 0
          THEN Finish(p, Result("adjust", "OK", 0))
          ELSE Goto(p, [Idle EXCEPT !.pc = "adjust_move", !.q = q, !.qty = delta,
                                    !.newq = new_quantity, !.av = quants[q].qty,
                                    !.qlocks = {q}])
    /\ UNCHANGED <<db, now, config>>

\* Stock.adjust.
adjust(p, D) ==
    \E q \in QuantIds, new_quantity \in D.adj, reason \in D.reason :
        /\ st[p].pc = "idle"
        /\ IF reason = ""
           THEN Finish(p, Result("adjust", "REASON_REQUIRED", 0)) /\ UNCHANGED <<db, now, config>>
           ELSE RoomForMoves(D, 1) /\ adjust_locked(p, q, new_quantity)

\* Stock.replan: get_quant(product, target_date=target_date), then adjust.
replan(p, D) ==
    \E quantity \in D.adj, product \in Products, target_date \in D.date \ {NoDate},
       reason \in D.reason :
        /\ st[p].pc = "idle"
        /\ LET q == get_quant(product, NoPos, target_date)
           IN CASE q = NoQuant -> Finish(p, Result("replan", "QUANT_NOT_FOUND", 0))
                [] q # NoQuant /\ reason = "" -> Finish(p, Result("replan", "REASON_REQUIRED", 0))
                [] OTHER -> /\ RoomForMoves(D, 1)
                            /\ Goto(p, [Idle EXCEPT !.pc = "adjust_lock", !.q = q, !.qty = quantity])
        /\ UNCHANGED <<db, now, config>>

adjust_lock(p) ==
    /\ st[p].pc = "adjust_lock"
    /\ adjust_locked(p, st[p].q, st[p].qty)

\* Move.objects.create(delta=delta) and commit; the Move is returned.
adjust_move(p) ==
    /\ st[p].pc = "adjust_move"
    /\ quants' = MoveSave(quants, st[p].q, st[p].qty, st[p].av)
    /\ moves' = Append(moves, NewMove(st[p].q, st[p].qty, "adjust", 0))
    /\ Finish(p, Result("adjust", "OK", Len(moves) + 1))
    /\ UNCHANGED <<holds, now, config>>

\* ------------------------------------------------------------------- hold
\* "Not enough availability": a demand Hold under demand_ok, else the error
\* with the availability computed at the start of the transaction.
hold_fallthrough_raises(p, s) ==
    /\ UNCHANGED holds
    /\ Finish(p, StockError("hold", "INSUFFICIENT_AVAILABLE", s.av, s.qty))

hold_fallthrough(p, s) ==
    IF policy = "demand_ok"
    THEN /\ holds' = Append(holds, NewHold(s.prod, NoQuant, s.qty, s.date, s.exp))
         /\ Finish(p, Result("hold", "OK", 0))
    ELSE /\ UNCHANGED holds
         /\ Finish(p, StockError("hold", "INSUFFICIENT_AVAILABLE", s.av, s.qty))

\* Stock.hold: validation, then available(product, target).
hold(p, D) ==
    \E quantity \in D.qty, product \in Products, target \in D.target, expires_at \in D.exp :
        /\ st[p].pc = "idle"
        /\ IF quantity <= 0
           THEN /\ Finish(p, StockError("hold", "INVALID_QUANTITY", 0, quantity))
                /\ UNCHANGED holds
           ELSE LET s == [Idle EXCEPT !.prod = product, !.qty = quantity, !.date = target,
                                      !.exp = expires_at, !.av = available(product, target)]
                IN /\ RoomForHolds(D, 1)
                   /\ IF s.av >= quantity
                      THEN Goto(p, [s EXCEPT !.pc = "hold_find"]) /\ UNCHANGED holds
                      ELSE hold_fallthrough(p, s)
        /\ UNCHANGED <<quants, moves, now, config>>

\* _find_quant_for_hold(product, target, quantity).
hold_find(p) ==
    /\ st[p].pc = "hold_find"
    /\ LET q == find_quant_for_hold(st[p].prod, st[p].date, st[p].qty)
       IN IF q # NoQuant
          THEN Goto(p, [st[p] EXCEPT !.pc = "hold_lock", !.q = q]) /\ UNCHANGED holds
          ELSE hold_fallthrough(p, st[p])
    /\ UNCHANGED <<quants, moves, now, config>>

\* select_for_update on the Quant found, the re-check, Hold.objects.create.
hold_lock(p) ==
    /\ st[p].pc = "hold_lock"
    /\ ~QuantLockedByOther(p, st[p].q)
    /\ IF hold_recheck(st[p].q, st[p].qty)
       THEN /\ holds' = Append(holds, NewHold(st[p].prod, st[p].q, st[p].qty,
                                              st[p].date, st[p].exp))
            /\ Finish(p, Result("hold", "OK", 0))
       ELSE hold_fallthrough(p, st[p])
    /\ UNCHANGED <<quants, moves, now, config>>

\* ------------------------------------------------ confirm, release, fulfill
\* Hold ids a caller may pass: those of the existing Holds and one that
\* resolves to no Hold.
HoldArgs == 1..(Len(holds) + 1)

\* ---------------------------------------------------------------- hold ids
\* A str is a sequence of one-character strings.
HoldPrefix == <<"h", "o", "l", "d", ":">>

DigitChars == <<"0", "1", "2", "3", "4", "5", "6", "7", "8", "9">>

IsDigit(c) == \E i \in 1..10 : DigitChars[i] = c

DigitValue(c) == (CHOOSE i \in 1..10 : DigitChars[i] = c) - 1

\* str(n) for an int n >= 0: its decimal digits, the first one not "0"
\* unless n = 0.
RECURSIVE str(_)
str(n) == IF n < 10 THEN <<DigitChars[n + 1]>>
          ELSE str(n \div 10) \o <<DigitChars[(n % 10) + 1]>>

\* Hold.hold_id: f"hold:{self.pk}".
hold_id(pk) == HoldPrefix \o str(pk)

\* s.startswith(pre).
startswith(s, pre) == Len(s) >= Len(pre) /\ SubSeq(s, 1, Len(pre)) = pre

\* s.split(sep) for a one-character sep: the fields between the separators.
RECURSIVE split(_, _)
split(s, sep) ==
    IF \A i \in 1..Len(s) : s[i] # sep
    THEN <<s>>
    ELSE LET i == CHOOSE k \in 1..Len(s) : s[k] = sep /\ \A j \in 1..(k - 1) : s[j] # sep
         IN <<SubSeq(s, 1, i - 1)>> \o split(SubSeq(s, i + 1, Len(s)), sep)

\* s.strip(): without its leading and trailing blanks.
RECURSIVE strip(_)
strip(s) ==
    IF s = <<>> THEN s
    ELSE IF s[1] = " " THEN strip(Tail(s))
    ELSE IF s[Len(s)] = " " THEN strip(SubSeq(s, 1, Len(s) - 1))
    ELSE s

\* The value of a run of digits and single underscores, read left to right.
RECURSIVE DigitsValue(_, _)
DigitsValue(s, acc) ==
    IF s = <<>> THEN acc
    ELSE IF s[1] = "_" THEN DigitsValue(Tail(s), acc)
    ELSE DigitsValue(Tail(s), 10 * acc + DigitValue(s[1]))

\* What int() accepts after the sign: digits, with single underscores
\* between them.
IsDigits(s) ==
    /\ s # <<>>
    /\ IsDigit(s[1]) /\ IsDigit(s[Len(s)])
    /\ \A i \in 1..Len(s) : IsDigit(s[i]) \/ s[i] = "_"
    /\ \A i \in 1..(Len(s) - 1) : ~(s[i] = "_" /\ s[i + 1] = "_")

\* int(s): blanks around the literal are dropped, one sign is allowed,
\* leading zeros are allowed; ok is FALSE where int raises ValueError.
int(s) ==
    LET t == strip(s)
        signed == t # <<>> /\ t[1] \in {"+", "-"}
        d == IF signed THEN Tail(t) ELSE t
    IN IF IsDigits(d)
       THEN [ok |-> TRUE,
             value |-> IF signed /\ t[1] = "-" THEN 0 - DigitsValue(d, 0)
                       ELSE DigitsValue(d, 0)]
       ELSE [ok |-> FALSE, value |-> 0]

\* Stock._parse_hold_id: int(hold_id.split(':')[1]) when hold_id starts with
\* 'hold:'; ok is FALSE where it raises StockError('INVALID_HOLD').
_parse_hold_id(s) ==
    IF s # <<>> /\ startswith(s, HoldPrefix)
    THEN LET r == int(split(s, ":")[2])
         IN [ok |-> r.ok, pk |-> r.value]
    ELSE [ok |-> FALSE, pk |-> 0]

\* A confirm that also clears the Hold's expiry.
confirm_pk_extending(p, h) ==
        /\ CASE h \notin HoldIds ->
                  Finish(p, HoldResult("confirm", "INVALID_HOLD", h)) /\ UNCHANGED holds
             [] h \in HoldIds /\ ~confirm_allowed(holds[h]) ->
                  /\ ~HoldLockedByOther(p, h)
                  /\ Finish(p, HoldResult("confirm", "INVALID_STATUS", h))
                  /\ UNCHANGED holds
             [] OTHER ->
                  /\ ~HoldLockedByOther(p, h)
                  /\ holds' = [holds EXCEPT ![h].status = CONFIRMED,
                                            ![h].expires_at = NoExpiry]
                  /\ Finish(p, HoldResult("confirm", "OK", h))
        /\ UNCHANGED <<quants, moves, now, config>>

\* Stock.confirm, from Hold.objects.select_for_update().get(pk=pk) on.
confirm_pk(p, h) ==
        /\ CASE h \notin HoldIds ->
                  Finish(p, HoldResult("confirm", "INVALID_HOLD", h)) /\ UNCHANGED holds
             [] h \in HoldIds /\ ~confirm_allowed(holds[h]) ->
                  /\ ~HoldLockedByOther(p, h)
                  /\ Finish(p, HoldResult("confirm", "INVALID_STATUS", h))
                  /\ UNCHANGED holds
             [] OTHER ->
                  /\ ~HoldLockedByOther(p, h)
                  /\ holds' = [holds EXCEPT ![h].status = CONFIRMED]
                  /\ Finish(p, HoldResult("confirm", "OK", h))
        /\ UNCHANGED <<quants, moves, now, config>>

\* Stock.confirm called with the hold_id of pk h.
confirm(p) == \E h \in HoldArgs : st[p].pc = "idle" /\ confirm_pk(p, h)

\* Stock.release, from Hold.objects.select_for_update().get(pk=pk) on.
release_pk(p, h) ==
        /\ CASE h \notin HoldIds ->
                  Finish(p, HoldResult("release", "INVALID_HOLD", h)) /\ UNCHANGED holds
             [] h \in HoldIds /\ ~release_allowed(holds[h]) ->
                  /\ ~HoldLockedByOther(p, h)
                  /\ Finish(p, HoldResult("release", "INVALID_STATUS", h))
                  /\ UNCHANGED holds
             [] OTHER ->
                  /\ ~HoldLockedByOther(p, h)
                  /\ holds' = [holds EXCEPT ![h].status = RELEASED,
                                            ![h].resolved_at = now,
                                            ![h].release_reason = "Liberado"]
                  /\ Finish(p, HoldResult("release", "OK", h))
        /\ UNCHANGED <<quants, moves, now, config>>

\* Stock.release called with the hold_id of pk h.
release(p) == \E h \in HoldArgs : st[p].pc = "idle" /\ release_pk(p, h)

\* Stock.fulfill: select_for_update on the Hold and the checks.
fulfill_pk(p, D, h) ==
        /\ CASE h \notin HoldIds -> Finish(p, HoldResult("fulfill", "INVALID_HOLD", h))
             [] h \in HoldIds /\ ~fulfill_allowed(holds[h]) ->
                  /\ ~HoldLockedByOther(p, h)
                  /\ Finish(p, HoldResult("fulfill", "INVALID_STATUS", h))
             [] h \in HoldIds /\ fulfill_allowed(holds[h]) /\ holds[h].quant = NoQuant ->
                  /\ ~HoldLockedByOther(p, h)
                  /\ Finish(p, HoldResult("fulfill", "HOLD_IS_DEMAND", h))
             [] OTHER ->
                  /\ ~HoldLockedByOther(p, h)
                  /\ RoomForMoves(D, 1)
                  /\ Goto(p, [Idle EXCEPT !.pc = "fulfill_quant", !.h = h,
                                          !.q = holds[h].quant, !.qty = holds[h].quantity,
                                          !.hlocks = {h}])
        /\ UNCHANGED <<db, now, config>>

\* Stock.fulfill called with the hold_id of pk h.
fulfill(p, D) == \E h \in HoldArgs : st[p].pc = "idle" /\ fulfill_pk(p, D, h)

\* The largest primary key whose hold_id is parsed back.
MaxPk == 11

\* The strings confirm, release and fulfill are called with: the hold_id of
\* the Holds, of the next Hold and of Hold MaxPk, and strings no Hold has.
IdArgs ==
    {hold_id(h) : h \in HoldArgs \cup {MaxPk}} \cup
    {<<>>, <<"1">>, HoldPrefix, <<"h", "o", "l", "d", "1">>,
     <<"h", "e", "l", "d", ":", "1">>,
     HoldPrefix \o <<"x">>, HoldPrefix \o <<"1", "x">>,
     HoldPrefix \o <<"1", ":", "x">>, HoldPrefix \o <<"0", "1">>,
     HoldPrefix \o <<" ", "1">>, HoldPrefix \o <<"+", "1">>,
     HoldPrefix \o <<"-", "1">>, HoldPrefix \o <<"1", "_", "1">>,
     <<" ">> \o HoldPrefix \o <<"1">>}

\* pk = cls._parse_hold_id(hold_id), before the transaction opens.
parse_call(p, op, id) ==
    /\ st[p].pc = "idle"
    /\ LET r == _parse_hold_id(id)
       IN IF r.ok
          THEN Goto(p, [Idle EXCEPT !.pc = op \o "_get", !.h = r.pk, !.id = id])
          ELSE Finish(p, [HoldResult(op, "INVALID_HOLD", 0) EXCEPT !.id = id])
    /\ UNCHANGED <<db, now, config>>

\* Stock.confirm(hold_id).
confirm_id(p) == \E id \in IdArgs : parse_call(p, "confirm", id)

confirm_get(p) == st[p].pc = "confirm_get" /\ confirm_pk(p, st[p].h)

\* Stock.release(hold_id).
release_id(p) == \E id \in IdArgs : parse_call(p, "release", id)

release_get(p) == st[p].pc = "release_get" /\ release_pk(p, st[p].h)

\* Stock.fulfill(hold_id).
fulfill_id(p, D) == \E id \in IdArgs : RoomForMoves(D, 1) /\ parse_call(p, "fulfill", id)

fulfill_get(p, D) == st[p].pc = "fulfill_get" /\ fulfill_pk(p, D, st[p].h)

\* select_for_update on the Hold's Quant, the exit Move, status FULFILLED.
fulfill_quant(p) ==
    /\ st[p].pc = "fulfill_quant"
    /\ ~QuantLockedByOther(p, st[p].q)
    /\ quants' = MoveSave(quants, st[p].q, 0 - st[p].qty, quants[st[p].q].qty)
    /\ moves' = Append(moves, NewMove(st[p].q, 0 - st[p].qty, "fulfill", st[p].h))
    /\ holds' = [holds EXCEPT ![st[p].h].status = FULFILLED, ![st[p].h].resolved_at = now]
    /\ Finish(p, HoldResult("fulfill", "OK", st[p].h))
    /\ UNCHANGED <<now, config>>

\* Hold.objects.select_for_update(skip_locked=True).filter(status__in=[PENDING,
\* CONFIRMED], expires_at__lt=now): the expired rows no other transaction
\* has locked.
select_expired_with_locked(p) == {h \in HoldIds : is_expired(holds[h])}

select_expired(p) == {h \in HoldIds : is_expired(holds[h]) /\ ~HoldLockedByOther(p, h)}

\* A sweep without SKIP LOCKED: it waits until no expired row is locked.
release_expired_blocking(p) ==
    /\ st[p].pc = "idle"
    /\ \A h \in select_expired_with_locked(p) : ~HoldLockedByOther(p, h)
    /\ LET S == select_expired(p)
       IN IF S = {}
          THEN Finish(p, Result("release_expired", "OK", 0))
          ELSE Goto(p, [Idle EXCEPT !.pc = "release_expired_save", !.t = now, !.hlocks = S])
    /\ UNCHANGED <<db, now, config>>

\* Stock.release_expired: now is read, then the expired rows that no other
\* transaction has locked are selected and locked (SKIP LOCKED).
release_expired(p) ==
    /\ st[p].pc = "idle"
    /\ LET S == select_expired(p)
       IN IF S = {}
          THEN Finish(p, Result("release_expired", "OK", 0))
          ELSE Goto(p, [Idle EXCEPT !.pc = "release_expired_save", !.t = now, !.hlocks = S])
    /\ UNCHANGED <<db, now, config>>

\* A loop that commits after every row.
release_expired_save_each(p) ==
    /\ st[p].pc = "release_expired_save"
    /\ LET h == CHOOSE x \in st[p].hlocks : TRUE
       IN /\ holds' = [holds EXCEPT ![h].status = RELEASED, ![h].resolved_at = st[p].t,
                                    ![h].release_reason = "Expirado automaticamente"]
          /\ IF st[p].hlocks = {h}
             THEN Finish(p, Result("release_expired", "OK", 1))
             ELSE Goto(p, [st[p] EXCEPT !.hlocks = @ \ {h}])
    /\ UNCHANGED <<quants, moves, now, config>>

\* The loop over the selected rows: status, resolved_at and release_reason
\* are saved, count is returned, and the transaction commits.
release_expired_save(p) ==
    /\ st[p].pc = "release_expired_save"
    /\ holds' = [h \in HoldIds |->
                   IF h \in st[p].hlocks
                   THEN [holds[h] EXCEPT !.status = RELEASED, !.resolved_at = st[p].t,
                                         !.release_reason = "Expirado automaticamente"]
                   ELSE holds[h]]
    /\ Finish(p, Result("release_expired", "OK", Cardinality(st[p].hlocks)))
    /\ UNCHANGED <<quants, moves, now, config>>

\* ---------------------------------------------------------------- realize
\* Stock.realize: get_quant(product, target_date=target_date).
realize_creating(p, D) ==
    \E product \in Products, target_date \in D.date \ {NoDate}, actual_quantity \in D.act,
       to_position \in D.pos \ {NoPos} :
        /\ st[p].pc = "idle"
        /\ LET q == get_quant(product, NoPos, target_date)
               rq == IF QuantsAt(product, to_position, NoDate) = {} THEN 1 ELSE 0
           IN IF q = NoQuant
              THEN /\ RoomForQuants(D, 1)
                   /\ quants' = Append(quants, NewQuant(product, NoPos, target_date))
                   /\ UNCHANGED <<moves, holds>>
                   /\ Finish(p, Result("realize", "QUANT_NOT_FOUND", 0))
              ELSE /\ RoomForMoves(D, 3)
                   /\ RoomForQuants(D, rq)
                   /\ UNCHANGED db
                   /\ Goto(p, [Idle EXCEPT !.pc = "realize_lock", !.prod = product, !.q = q,
                                           !.qty = actual_quantity, !.pos = to_position,
                                           !.rq = rq])
        /\ UNCHANGED <<now, config>>

realize(p, D) ==
    \E product \in Products, target_date \in D.date \ {NoDate}, actual_quantity \in D.act,
       to_position \in D.pos \ {NoPos} :
        /\ st[p].pc = "idle"
        /\ LET q == get_quant(product, NoPos, target_date)
               rq == IF QuantsAt(product, to_position, NoDate) = {} THEN 1 ELSE 0
           IN IF q = NoQuant
              THEN Finish(p, Result("realize", "QUANT_NOT_FOUND", 0))
              ELSE /\ RoomForMoves(D, 3)
                   /\ RoomForQuants(D, rq)
                   /\ Goto(p, [Idle EXCEPT !.pc = "realize_lock", !.prod = product, !.q = q,
                                           !.qty = actual_quantity, !.pos = to_position,
                                           !.rq = rq])
        /\ UNCHANGED <<db, now, config>>

\* select_for_update on the planned Quant.
realize_lock(p) ==
    /\ st[p].pc = "realize_lock"
    /\ ~QuantLockedByOther(p, st[p].q)
    /\ Goto(p, [st[p] EXCEPT !.pc = "realize_get", !.av = quants[st[p].q].qty,
                             !.qlocks = {st[p].q}])
    /\ UNCHANGED <<db, now, config>>

\* get_or_create of the physical Quant: the SELECT.
realize_get(p) ==
    /\ st[p].pc = "realize_get"
    /\ LET S == QuantsAt(st[p].prod, st[p].pos, NoDate)
       IN CASE Cardinality(S) = 0 -> Goto(p, [st[p] EXCEPT !.pc = "realize_commit"])
            [] Cardinality(S) = 1 ->
                 Goto(p, [st[p] EXCEPT !.pc = "realize_commit", !.phys = CHOOSE i \in S : TRUE])
            [] OTHER -> Finish(p, Result("realize", "MultipleObjectsReturned", 0))
    /\ UNCHANGED <<db, now, config>>

\* locked_quant.holds.filter(status__in=[PENDING, CONFIRMED]).
holds_to_transfer_any_status(planned) == {h \in HoldIds : holds[h].quant = planned}

holds_to_transfer(planned) ==
    {h \in HoldIds : holds[h].quant = planned /\ holds[h].status \in {PENDING, CONFIRMED}}

\* The reconciling Move, the INSERT of get_or_create, the transfer pair, the
\* re-pointing of the planned Quant's PENDING/CONFIRMED Holds, and commit.
realize_commit(p) ==
    /\ st[p].pc = "realize_commit"
    /\ LET planned == st[p].q
           actual == st[p].qty
           insert == st[p].phys = NoQuant /\ ~UniqueViolation(st[p].prod, st[p].pos, NoDate)
           phys == CASE st[p].phys # NoQuant -> st[p].phys
                     [] insert -> Len(quants) + 1
                     [] OTHER -> get_quant(st[p].prod, st[p].pos, NoDate)
           moved == holds_to_transfer(planned)
           q0 == IF insert THEN Append(quants, NewQuant(st[p].prod, st[p].pos, NoDate))
                 ELSE quants
           q1 == IF st[p].av # actual THEN MoveSave(q0, planned, actual - st[p].av, st[p].av)
                 ELSE q0
           q2 == MoveSave(q1, planned, 0 - actual, st[p].av)
           q3 == MoveSave(q2, phys, actual, q0[phys].qty)
           m1 == IF st[p].av # actual
                 THEN Append(moves, NewMove(planned, actual - st[p].av, "reconcile", 0))
                 ELSE moves
       IN /\ ~QuantLockedByOther(p, phys)
          /\ \A h \in moved : ~HoldLockedByOther(p, h)
          /\ quants' = q3
          /\ moves' = m1 \o <<NewMove(planned, 0 - actual, "transfer", 0),
                               NewMove(phys, actual, "produced", 0)>>
          /\ holds' = [h \in HoldIds |-> IF h \in moved THEN [holds[h] EXCEPT !.quant = phys]
                                         ELSE holds[h]]
          /\ Finish(p, Result("realize", "OK", 0))
    /\ UNCHANGED <<now, config>>

\* ------------------------------------------------------------ recalculate
\* The caller obtains a Quant instance: its _quantity is the balance stored
\* when the row was fetched.
quant_load(p) ==
    \E q \in QuantIds :
        /\ st[p].pc = "idle"
        /\ Goto(p, [Idle EXCEPT !.pc = "recalculate", !.q = q, !.av = quants[q].qty])
        /\ UNCHANGED <<db, now, config>>

\* self.moves.aggregate(Sum('delta')).
moves_total(q) ==
    SumTo([i \in MoveIds |-> IF moves[i].quant = q THEN moves[i].delta ELSE 0], Len(moves))

\* Quant.recalculate: the Moves are summed and the sum is compared with the
\* instance's _quantity; no transaction, no lock.
recalculate(p) ==
    /\ st[p].pc = "recalculate"
    /\ LET total == moves_total(st[p].q)
       IN IF total # st[p].av
          THEN Goto(p, [st[p] EXCEPT !.pc = "recalculate_save", !.newq = total])
          ELSE Finish(p, Result("recalculate", "OK", total))
    /\ UNCHANGED <<db, now, config>>

\* self._quantity = total; self.save(update_fields=['_quantity', 'updated_at']).
recalculate_save(p) ==
    /\ st[p].pc = "recalculate_save"
    /\ ~QuantLockedByOther(p, st[p].q)
    /\ quants' = [quants EXCEPT ![st[p].q].qty = st[p].newq]
    /\ Finish(p, Result("recalculate", "OK", st[p].newq))
    /\ UNCHANGED <<moves, holds, now, config>>

\* ------------------------------------------------------------- Move rows
\* Move.save on a persisted Move (self.pk set) raises before any write.
save_persisted_writes(ms, m, delta) == [ms EXCEPT ![m].delta = delta]

save_persisted(ms, m, delta) == ms

\* Move.delete raises before any write.
delete_removes(ms, m) == [i \in 1..(Len(ms) - 1) |-> IF i < m THEN ms[i] ELSE ms[i + 1]]

delete(ms, m) == ms

move_save_persisted(p) ==
    \E m \in MoveIds, delta \in {1, 2} :
        /\ st[p].pc = "idle"
        /\ moves' = save_persisted(moves, m, delta)
        /\ Finish(p, Result("Move.save", "ValueError", 0))
        /\ UNCHANGED <<quants, holds, now, config>>

move_delete(p) ==
    \E m \in MoveIds :
        /\ st[p].pc = "idle"
        /\ moves' = delete(moves, m)
        /\ Finish(p, Result("Move.delete", "ValueError", 0))
        /\ UNCHANGED <<quants, holds, now, config>>

\* ------------------------------------------------------------------ clock
Tick(D) ==
    /\ now < D.time
    /\ now' = now + 1
    /\ UNCHANGED <<db, config, st, last>>

\* ------------------------------------------------------------- lock waits
\* The Quant rows the next statement of p's open transaction locks:
\* select_for_update on a Quant, or the UPDATE of Move.save.
WantedQuants(p) ==
    CASE st[p].pc \in {"receive_move", "hold_lock", "fulfill_quant", "realize_lock",
                       "adjust_lock"} -> {st[p].q}
      [] st[p].pc = "realize_commit" /\ st[p].phys # NoQuant -> {st[p].phys}
      [] OTHER -> {}

\* The Hold rows the next statement of p's open transaction locks: the
\* UPDATE of realize on the planned Quant's PENDING/CONFIRMED Holds.
WantedHolds(p) ==
    IF st[p].pc = "realize_commit" THEN holds_to_transfer(st[p].q) ELSE {}

\* p's transaction is blocked on a row lock that o's transaction holds.
WaitsFor(p, o) ==
    /\ p # o
    /\ \/ WantedQuants(p) \cap st[o].qlocks # {}
       \/ WantedHolds(p) \cap st[o].hlocks # {}

\* ---------------------------------------------------------- specifications
\* Spec: two clients receive stock, issue it, and create and resolve holds
\* (no fulfill), while the clock advances.
HoldArgsD == [qty |-> {1, 2}, pos |-> {1}, ppos |-> {NoPos}, date |-> {NoDate},
              target |-> {1}, exp |-> {NoExpiry, 0}, adj |-> {0}, reason |-> {"r"},
              act |-> {1, 2},
              quants |-> MaxQuants, moves |-> MaxMoves, holds |-> MaxHolds, time |-> MaxTime]

Init == InitOf([policy |-> {"planned_ok", "demand_ok"}, shelflife |-> {NoShelf}, track |-> {}])

Next ==
    \/ \E p \in Procs :
         \/ receive(p, HoldArgsD) \/ receive_create(p) \/ receive_move(p)
         \/ issue(p, HoldArgsD) \/ issue_move(p)
         \/ hold(p, HoldArgsD) \/ hold_find(p) \/ hold_lock(p)
         \/ confirm(p) \/ release(p) \/ release_expired(p) \/ release_expired_save(p)
    \/ Tick(HoldArgsD)

Spec == Init /\ [][Next]_vars

\* SpecLedger: two clients run every operation that appends to the ledger.
LedgerArgs == [qty |-> {1, 2}, pos |-> {1}, ppos |-> {NoPos}, date |-> {NoDate, 1},
               target |-> {1}, exp |-> {NoExpiry}, adj |-> {0}, reason |-> {"r"},
               act |-> {1, 2},
               quants |-> MaxQuants, moves |-> MaxLedgerMoves, holds |-> MaxLedgerHolds,
               time |-> 0]

InitLedger == InitOf([policy |-> {"planned_ok"}, shelflife |-> {NoShelf}, track |-> {}])

NextLedger ==
    \E p \in Procs :
        \/ receive(p, LedgerArgs) \/ plan(p, LedgerArgs) \/ receive_create(p) \/ receive_move(p)
        \/ issue(p, LedgerArgs) \/ issue_move(p)
        \/ adjust(p, LedgerArgs) \/ replan(p, LedgerArgs) \/ adjust_lock(p) \/ adjust_move(p)
        \/ hold(p, LedgerArgs) \/ hold_find(p) \/ hold_lock(p)
        \/ confirm(p) \/ fulfill(p, LedgerArgs) \/ fulfill_quant(p)
        \/ realize(p, LedgerArgs) \/ realize_lock(p) \/ realize_get(p) \/ realize_commit(p)

SpecLedger == InitLedger /\ [][NextLedger]_vars

\* SpecSeq: one client runs every operation of the engine, one at a time.
SeqArgs == [qty |-> {1, 2}, pos |-> {1}, ppos |-> {NoPos}, date |-> {NoDate, 1},
            target |-> {1}, exp |-> {NoExpiry, 0}, adj |-> {0}, reason |-> {"r"},
            act |-> {1, 2},
            quants |-> MaxQuants, moves |-> MaxLedgerMoves, holds |-> MaxLedgerHolds,
            time |-> MaxTime]

InitSeq == InitOf([policy |-> {"planned_ok"}, shelflife |-> {NoShelf}, track |-> {}])

NextSeq ==
    \/ receive("p1", SeqArgs) \/ plan("p1", SeqArgs) \/ receive_create("p1")
    \/ receive_move("p1")
    \/ issue("p1", SeqArgs) \/ issue_move("p1")
    \/ adjust("p1", SeqArgs) \/ replan("p1", SeqArgs) \/ adjust_lock("p1") \/ adjust_move("p1")
    \/ hold("p1", SeqArgs) \/ hold_find("p1") \/ hold_lock("p1")
    \/ confirm("p1") \/ release("p1") \/ fulfill("p1", SeqArgs) \/ fulfill_quant("p1")
    \/ release_expired("p1") \/ release_expired_save("p1")
    \/ realize("p1", SeqArgs) \/ realize_lock("p1") \/ realize_get("p1") \/ realize_commit("p1")
    \/ Tick(SeqArgs)

SpecSeq == InitSeq /\ [][NextSeq]_vars

\* SpecExit: two clients take stock out, by issue and by fulfilling holds;
\* the results of issue and fulfill are recorded.
ExitArgs == [qty |-> {0, 1, 2}, pos |-> {1}, ppos |-> {NoPos}, date |-> {NoDate},
             target |-> {1}, exp |-> {NoExpiry, 0}, adj |-> {0}, reason |-> {"r"},
             act |-> {1, 2},
             quants |-> 1, moves |-> MaxLedgerMoves, holds |-> MaxLedgerHolds,
             time |-> MaxTime]

InitExit == InitOf([policy |-> {"planned_ok"}, shelflife |-> {NoShelf},
                    track |-> {"issue", "fulfill"}])

NextExit ==
    \/ \E p \in Procs :
         \/ receive(p, ExitArgs) \/ receive_create(p) \/ receive_move(p)
         \/ issue(p, ExitArgs) \/ issue_move(p)
         \/ hold(p, ExitArgs) \/ hold_find(p) \/ hold_lock(p)
         \/ confirm(p) \/ release(p) \/ fulfill(p, ExitArgs) \/ fulfill_quant(p)
         \/ release_expired(p) \/ release_expired_save(p)
    \/ Tick(ExitArgs)

SpecExit == InitExit /\ [][NextExit]_vars

\* SpecRows: one client runs every operation that appends to the ledger and
\* also tries to save and to delete the Moves already stored; the results of
\* those attempts are recorded.
InitRows == InitOf([policy |-> {"planned_ok"}, shelflife |-> {NoShelf},
                    track |-> {"Move.save", "Move.delete"}])

NextRows ==
    \/ receive("p1", LedgerArgs) \/ plan("p1", LedgerArgs) \/ receive_create("p1")
    \/ receive_move("p1")
    \/ issue("p1", LedgerArgs) \/ issue_move("p1")
    \/ adjust("p1", LedgerArgs) \/ replan("p1", LedgerArgs) \/ adjust_lock("p1")
    \/ adjust_move("p1")
    \/ hold("p1", LedgerArgs) \/ hold_find("p1") \/ hold_lock("p1")
    \/ confirm("p1") \/ fulfill("p1", LedgerArgs) \/ fulfill_quant("p1")
    \/ realize("p1", LedgerArgs) \/ realize_lock("p1") \/ realize_get("p1")
    \/ realize_commit("p1")
    \/ move_save_persisted("p1") \/ move_delete("p1")

SpecRows == InitRows /\ [][NextRows]_vars

\* SpecHold: two clients receive and plan stock and create and release
\* holds; the results of hold are recorded.
HoldResultArgs == [qty |-> {1, 2}, pos |-> {1}, ppos |-> {NoPos}, date |-> {NoDate, 1},
                   target |-> {1}, exp |-> {NoExpiry}, adj |-> {0}, reason |-> {"r"},
                   act |-> {1, 2},
                   quants |-> MaxQuants, moves |-> MaxMoves, holds |-> MaxHolds, time |-> 0]

InitHold == InitOf([policy |-> {"planned_ok", "demand_ok"}, shelflife |-> {NoShelf},
                    track |-> {"hold"}])

NextHold ==
    \E p \in Procs :
        \/ receive(p, HoldResultArgs) \/ plan(p, HoldResultArgs)
        \/ receive_create(p) \/ receive_move(p)
        \/ hold(p, HoldResultArgs) \/ hold_find(p) \/ hold_lock(p)
        \/ release(p)

SpecHold == InitHold /\ [][NextHold]_vars

\* SpecResolve: two clients receive stock and create, confirm, release and
\* fulfill holds under demand_ok while the clock advances; the results of
\* confirm, release and fulfill are recorded.
ResolveArgs == [qty |-> {1}, pos |-> {1}, ppos |-> {NoPos}, date |-> {NoDate},
                target |-> {1}, exp |-> {NoExpiry, 0}, adj |-> {0}, reason |-> {"r"},
                act |-> {1},
                quants |-> 1, moves |-> MaxMoves, holds |-> MaxHolds, time |-> MaxTime]

InitResolve == InitOf([policy |-> {"demand_ok"}, shelflife |-> {NoShelf},
                       track |-> {"confirm", "release", "fulfill"}])

NextResolve ==
    \/ \E p \in Procs :
         \/ receive(p, ResolveArgs) \/ receive_create(p) \/ receive_move(p)
         \/ hold(p, ResolveArgs) \/ hold_find(p) \/ hold_lock(p)
         \/ confirm(p) \/ release(p) \/ fulfill(p, ResolveArgs) \/ fulfill_quant(p)
    \/ Tick(ResolveArgs)

SpecResolve == InitResolve /\ [][NextResolve]_vars

\* SpecSweep: two clients create, confirm, release and fulfill holds and
\* run the sweeper while the clock advances; the counts the sweeper returns
\* are recorded.
SweepArgs == [qty |-> {1}, pos |-> {1}, ppos |-> {NoPos}, date |-> {NoDate},
              target |-> {1}, exp |-> {NoExpiry, 0}, adj |-> {0}, reason |-> {"r"},
              act |-> {1},
              quants |-> 1, moves |-> MaxMoves, holds |-> MaxHolds, time |-> MaxTime]

InitSweep == InitOf([policy |-> {"planned_ok", "demand_ok"}, shelflife |-> {NoShelf},
                     track |-> {"release_expired"}])

NextSweep ==
    \/ \E p \in Procs :
         \/ receive(p, SweepArgs) \/ receive_create(p) \/ receive_move(p)
         \/ hold(p, SweepArgs) \/ hold_find(p) \/ hold_lock(p)
         \/ confirm(p) \/ release(p) \/ fulfill(p, SweepArgs) \/ fulfill_quant(p)
         \/ release_expired(p) \/ release_expired_save(p)
    \/ Tick(SweepArgs)

SpecSweep == InitSweep /\ [][NextSweep]_vars

\* SpecSweepSeq: one client creates and resolves holds and runs the sweeper
\* while the clock advances; the counts the sweeper returns are recorded.
InitSweepSeq == InitOf([policy |-> {"planned_ok", "demand_ok"}, shelflife |-> {NoShelf},
                        track |-> {"release_expired"}])

NextSweepSeq ==
    \/ receive("p1", SweepArgs) \/ receive_create("p1") \/ receive_move("p1")
    \/ hold("p1", SweepArgs) \/ hold_find("p1") \/ hold_lock("p1")
    \/ confirm("p1") \/ release("p1") \/ fulfill("p1", SweepArgs) \/ fulfill_quant("p1")
    \/ release_expired("p1") \/ release_expired_save("p1")
    \/ Tick(SweepArgs)

SpecSweepSeq == InitSweepSeq /\ [][NextSweepSeq]_vars

\* SpecAvail: one client stocks and plans a perishable or non-perishable
\* product and creates and resolves holds for two target dates while the
\* clock advances.
AvailArgs == [qty |-> {1, 2}, pos |-> {1}, ppos |-> {NoPos}, date |-> {NoDate, 2},
              target |-> {1, 2}, exp |-> {NoExpiry, 0}, adj |-> {0}, reason |-> {"r"},
              act |-> {1},
              quants |-> MaxQuants, moves |-> MaxMoves, holds |-> MaxHolds, time |-> MaxTime]

InitAvail == InitOf([policy |-> {"planned_ok", "demand_ok"}, shelflife |-> {NoShelf, 0},
                     track |-> {}])

NextAvail ==
    \/ receive("p1", AvailArgs) \/ plan("p1", AvailArgs)
    \/ receive_create("p1") \/ receive_move("p1")
    \/ hold("p1", AvailArgs) \/ hold_find("p1") \/ hold_lock("p1")
    \/ confirm("p1") \/ release("p1")
    \/ release_expired("p1") \/ release_expired_save("p1")
    \/ Tick(AvailArgs)

SpecAvail == InitAvail /\ [][NextAvail]_vars

\* SpecShelf: one client stocks and plans a product whose shelf life is
\* none, 0 or 1 day and creates holds for the day before, the day of and the
\* day after the planned date.
ShelfArgs == [qty |-> {1, 2}, pos |-> {1}, ppos |-> {NoPos}, date |-> {NoDate, 2},
              target |-> {1, 2, 3}, exp |-> {NoExpiry}, adj |-> {0}, reason |-> {"r"},
              act |-> {1},
              quants |-> MaxQuants, moves |-> MaxMoves, holds |-> MaxHolds, time |-> 0]

InitShelf == InitOf([policy |-> {"planned_ok", "demand_ok"}, shelflife |-> {NoShelf, 0, 1},
                     track |-> {}])

NextShelf ==
    \/ receive("p1", ShelfArgs) \/ plan("p1", ShelfArgs)
    \/ receive_create("p1") \/ receive_move("p1")
    \/ hold("p1", ShelfArgs) \/ hold_find("p1") \/ hold_lock("p1")
    \/ release("p1")

SpecShelf == InitShelf /\ [][NextShelf]_vars

\* SpecPos: one client receives stock at two positions and creates and
\* releases holds.
PosArgs == [qty |-> {1, 2}, pos |-> {1, 2}, ppos |-> {NoPos}, date |-> {NoDate},
            target |-> {1}, exp |-> {NoExpiry}, adj |-> {0}, reason |-> {"r"},
            act |-> {1},
            quants |-> MaxQuants, moves |-> MaxMoves, holds |-> MaxHolds, time |-> 0]

InitPos == InitOf([policy |-> {"planned_ok", "demand_ok"}, shelflife |-> {NoShelf},
                   track |-> {}])

NextPos ==
    \/ receive("p1", PosArgs) \/ receive_create("p1") \/ receive_move("p1")
    \/ hold("p1", PosArgs) \/ hold_find("p1") \/ hold_lock("p1")
    \/ release("p1")

SpecPos == InitPos /\ [][NextPos]_vars

\* SpecPolicy: two clients receive and plan stock and create and release
\* holds for a product of any of the three availability policies; the
\* results of hold are recorded.
PolicyArgs == [qty |-> {0, 1, 2}, pos |-> {1}, ppos |-> {NoPos}, date |-> {NoDate, 2},
               target |-> {2}, exp |-> {NoExpiry}, adj |-> {0}, reason |-> {"r"},
               act |-> {1, 2},
               quants |-> MaxQuants, moves |-> MaxMoves, holds |-> MaxHolds, time |-> 0]

InitPolicy == InitOf([policy |-> Policies, shelflife |-> {NoShelf}, track |-> {"hold"}])

NextPolicy ==
    \E p \in Procs :
        \/ receive(p, PolicyArgs) \/ plan(p, PolicyArgs)
        \/ receive_create(p) \/ receive_move(p)
        \/ hold(p, PolicyArgs) \/ hold_find(p) \/ hold_lock(p)
        \/ release(p)

SpecPolicy == InitPolicy /\ [][NextPolicy]_vars

\* SpecNormal: one client runs the normal operations of the engine (receive,
\* plan, issue, hold create, confirm, release, fulfill, release_expired) on a
\* product whose policy allows no demand, while the clock advances.
NormalArgs == [qty |-> {1, 2}, pos |-> {1}, ppos |-> {NoPos}, date |-> {NoDate, 1},
               target |-> {1}, exp |-> {NoExpiry, 0}, adj |-> {0}, reason |-> {"r"},
               act |-> {1},
               quants |-> MaxQuants, moves |-> MaxMoves, holds |-> MaxHolds, time |-> MaxTime]

InitNormal == InitOf([policy |-> {"stock_only", "planned_ok"}, shelflife |-> {NoShelf},
                      track |-> {}])

NextNormal ==
    \/ receive("p1", NormalArgs) \/ plan("p1", NormalArgs)
    \/ receive_create("p1") \/ receive_move("p1")
    \/ issue("p1", NormalArgs) \/ issue_move("p1")
    \/ hold("p1", NormalArgs) \/ hold_find("p1") \/ hold_lock("p1")
    \/ confirm("p1") \/ release("p1") \/ fulfill("p1", NormalArgs) \/ fulfill_quant("p1")
    \/ release_expired("p1") \/ release_expired_save("p1")
    \/ Tick(NormalArgs)

SpecNormal == InitNormal /\ [][NextNormal]_vars

\* SpecAdjust: two clients receive, issue, reserve and fulfill stock of one
\* Quant and adjust its balance; the results of adjust are recorded.
AdjustArgs == [qty |-> {1}, pos |-> {1}, ppos |-> {NoPos}, date |-> {NoDate},
               target |-> {1}, exp |-> {NoExpiry}, adj |-> {0, 1, 2}, reason |-> {"r"},
               act |-> {1},
               quants |-> 1, moves |-> MaxLedgerMoves, holds |-> MaxLedgerHolds, time |-> 0]

InitAdjust == InitOf([policy |-> {"planned_ok"}, shelflife |-> {NoShelf}, track |-> {"adjust"}])

NextAdjust ==
    \E p \in Procs :
        \/ receive(p, AdjustArgs) \/ receive_create(p) \/ receive_move(p)
        \/ issue(p, AdjustArgs) \/ issue_move(p)
        \/ hold(p, AdjustArgs) \/ hold_find(p) \/ hold_lock(p)
        \/ confirm(p) \/ fulfill(p, AdjustArgs) \/ fulfill_quant(p)
        \/ adjust(p, AdjustArgs) \/ adjust_move(p)

SpecAdjust == InitAdjust /\ [][NextAdjust]_vars

\* SpecRecalc: two clients receive and issue stock, obtain Quant instances
\* and recalculate them; the values recalculate returns are recorded.
RecalcArgs == [qty |-> {1}, pos |-> {1}, ppos |-> {NoPos}, date |-> {NoDate},
               target |-> {1}, exp |-> {NoExpiry}, adj |-> {0}, reason |-> {"r"},
               act |-> {1},
               quants |-> 1, moves |-> MaxLedgerMoves, holds |-> MaxLedgerHolds, time |-> 0]

InitRecalc == InitOf([policy |-> {"planned_ok"}, shelflife |-> {NoShelf},
                      track |-> {"recalculate"}])

NextRecalc ==
    \E p \in Procs :
        \/ receive(p, RecalcArgs) \/ receive_create(p) \/ receive_move(p)
        \/ issue(p, RecalcArgs) \/ issue_move(p)
        \/ quant_load(p) \/ recalculate(p) \/ recalculate_save(p)

SpecRecalc == InitRecalc /\ [][NextRecalc]_vars

\* SpecErr: one client calls every operation of the ledger and of holds with
\* valid and invalid arguments; every result is recorded.
ErrArgs == [qty |-> {0 - 1, 0, 1}, pos |-> {1}, ppos |-> {NoPos}, date |-> {NoDate, 1},
            target |-> {1}, exp |-> {NoExpiry}, adj |-> {0, 1}, reason |-> {"", "r"},
            act |-> {1},
            quants |-> MaxQuants, moves |-> MaxLedgerMoves, holds |-> MaxLedgerHolds,
            time |-> 0]

InitErr == InitOf([policy |-> {"planned_ok"}, shelflife |-> {NoShelf},
                   track |-> {"receive", "issue", "adjust", "replan", "hold", "confirm",
                              "release", "fulfill", "realize"}])

NextErr ==
    \/ receive("p1", ErrArgs) \/ plan("p1", ErrArgs) \/ receive_create("p1")
    \/ receive_move("p1")
    \/ issue("p1", ErrArgs) \/ issue_move("p1")
    \/ adjust("p1", ErrArgs) \/ replan("p1", ErrArgs) \/ adjust_lock("p1") \/ adjust_move("p1")
    \/ hold("p1", ErrArgs) \/ hold_find("p1") \/ hold_lock("p1")
    \/ confirm("p1") \/ release("p1") \/ fulfill("p1", ErrArgs) \/ fulfill_quant("p1")
    \/ realize("p1", ErrArgs) \/ realize_lock("p1") \/ realize_get("p1") \/ realize_commit("p1")

SpecErr == InitErr /\ [][NextErr]_vars

\* SpecIds: one client receives stock, creates holds and calls confirm,
\* release and fulfill with hold ids and with other strings; their results
\* are recorded.
IdsArgs == [qty |-> {1}, pos |-> {1}, ppos |-> {NoPos}, date |-> {NoDate},
            target |-> {1}, exp |-> {NoExpiry}, adj |-> {0}, reason |-> {"r"},
            act |-> {1},
            quants |-> 1, moves |-> MaxMoves, holds |-> MaxHolds, time |-> 0]

InitIds == InitOf([policy |-> {"demand_ok"}, shelflife |-> {NoShelf},
                   track |-> {"confirm", "release", "fulfill"}])

NextIds ==
    \/ receive("p1", IdsArgs) \/ receive_create("p1") \/ receive_move("p1")
    \/ hold("p1", IdsArgs) \/ hold_find("p1") \/ hold_lock("p1")
    \/ confirm_id("p1") \/ confirm_get("p1")
    \/ release_id("p1") \/ release_get("p1")
    \/ fulfill_id("p1", IdsArgs) \/ fulfill_get("p1", IdsArgs) \/ fulfill_quant("p1")

SpecIds == InitIds /\ [][NextIds]_vars

\* SpecLocks: two clients plan production, reserve it, confirm and fulfill
\* the holds and realize the production, each in its own transaction.
MaxLockMoves == 5

LockArgs == [qty |-> {1}, pos |-> {1}, ppos |-> {NoPos}, date |-> {1},
             target |-> {1}, exp |-> {NoExpiry}, adj |-> {0}, reason |-> {"r"},
             act |-> {1},
             quants |-> MaxQuants, moves |-> MaxLockMoves, holds |-> MaxLedgerHolds,
             time |-> 0]

InitLocks == InitOf([policy |-> {"planned_ok"}, shelflife |-> {NoShelf}, track |-> {}])

NextLocks ==
    \E p \in Procs :
        \/ plan(p, LockArgs) \/ receive_create(p) \/ receive_move(p)
        \/ hold(p, LockArgs) \/ hold_find(p) \/ hold_lock(p)
        \/ confirm(p) \/ fulfill(p, LockArgs) \/ fulfill_quant(p)
        \/ realize(p, LockArgs) \/ realize_lock(p) \/ realize_get(p) \/ realize_commit(p)

SpecLocks == InitLocks /\ [][NextLocks]_vars

\* SpecAtomic: two clients plan production, reserve it, confirm and fulfill
\* the holds, realize the production and sweep expired holds while the
\* clock advances.
AtomicArgs == [qty |-> {1, 2}, pos |-> {1}, ppos |-> {NoPos}, date |-> {1},
               target |-> {1}, exp |-> {0}, adj |-> {0}, reason |-> {"r"},
               act |-> {1},
               quants |-> MaxQuants, moves |-> MaxLockMoves, holds |-> MaxHolds,
               time |-> MaxTime]

InitAtomic == InitOf([policy |-> {"planned_ok"}, shelflife |-> {NoShelf}, track |-> {}])

NextAtomic ==
    \/ \E p \in Procs :
         \/ plan(p, AtomicArgs) \/ receive_create(p) \/ receive_move(p)
         \/ hold(p, AtomicArgs) \/ hold_find(p) \/ hold_lock(p)
         \/ confirm(p) \/ fulfill(p, AtomicArgs) \/ fulfill_quant(p)
         \/ release_expired(p) \/ release_expired_save(p)
         \/ realize(p, AtomicArgs) \/ realize_lock(p) \/ realize_get(p) \/ realize_commit(p)
    \/ Tick(AtomicArgs)

SpecAtomic == InitAtomic /\ [][NextAtomic]_vars

\* SpecRealize: one client stocks and plans a product whose shelf life is
\* none, 0 or 1 day, reserves it for the planned date and realizes the
\* production.
RealizeArgs == [qty |-> {1, 2}, pos |-> {1}, ppos |-> {NoPos}, date |-> {NoDate, 2},
                target |-> {2}, exp |-> {NoExpiry}, adj |-> {0}, reason |-> {"r"},
                act |-> {1, 2},
                quants |-> MaxQuants, moves |-> MaxLockMoves, holds |-> MaxLedgerHolds,
                time |-> 0]

InitRealize == InitOf([policy |-> {"planned_ok"}, shelflife |-> {NoShelf, 0, 1},
                       track |-> {}])

NextRealize ==
    \/ receive("p1", RealizeArgs) \/ plan("p1", RealizeArgs)
    \/ receive_create("p1") \/ receive_move("p1")
    \/ hold("p1", RealizeArgs) \/ hold_find("p1") \/ hold_lock("p1")
    \/ realize("p1", RealizeArgs) \/ realize_lock("p1") \/ realize_get("p1")
    \/ realize_commit("p1")

SpecRealize == InitRealize /\ [][NextRealize]_vars

\* ----------------------------------------------------------------- claims
\* A Hold counts toward held quantities: PENDING or CONFIRMED, and without
\* an expiry or with an expiry that has not passed.
Counted(hr) ==
    /\ hr.status = PENDING \/ hr.status = CONFIRMED
    /\ ~(hr.expires_at # NoExpiry /\ hr.expires_at < now)

\* The sum of the quantities of the counted Holds bound to Quant q.
LiveBound(q) ==
    SumTo([i \in HoldIds |-> IF holds[i].quant = q /\ Counted(holds[i])
                             THEN holds[i].quantity ELSE 0], Len(holds))

\* The sum of the deltas of the Moves of Quant q.
LedgerSum(q) ==
    SumTo([i \in MoveIds |-> IF moves[i].quant = q THEN moves[i].delta ELSE 0], Len(moves))

\* C1: under engine operations only, every Quant's balance minus the sum of
\* its non-expired PENDING/CONFIRMED Holds is never negative.
C1_NoOversell == \A q \in QuantIds : quants[q].qty - LiveBound(q) >= 0

\* C2: the stored balance of every Quant equals the sum of the deltas of its
\* Moves, under any interleaving of the operations that append Moves.
C2_BalanceIsLedgerSum == \A q \in QuantIds : quants[q].qty = LedgerSum(q)

\* A Move is about to be appended to a Quant whose balance has changed since
\* the appending process fetched it.
C2_StaleAppend ==
    \E p \in Procs : /\ st[p].pc = "receive_move"
                     /\ st[p].av # quants[st[p].q].qty
                     /\ ~QuantLockedByOther(p, st[p].q)

\* C3: concurrent hold creations (and issues) on one Quant never commit
\* counted bound Holds beyond the balance, and a creator whose locked
\* re-check fails binds nothing: it falls through to the demand path or to
\* the error, without retrying.
C3_HeldWithinBalance == \A q \in QuantIds : LiveBound(q) <= quants[q].qty

C3_FailedRecheckFallsThrough ==
    \A p \in Procs :
        (/\ st[p].pc = "hold_lock"
         /\ st'[p] # st[p]
         /\ quants[st[p].q].qty - LiveBound(st[p].q) < st[p].qty)
        => /\ st'[p].pc = "idle"
           /\ \/ holds' = holds
              \/ /\ policy = "demand_ok"
                 /\ holds' = Append(holds, holds'[Len(holds')])
                 /\ holds'[Len(holds')].quant = NoQuant

C3_ConcurrentHolds == []C3_HeldWithinBalance /\ [][C3_FailedRecheckFallsThrough]_vars

\* A creator that found a Quant is at the locked re-check, and the Quant no
\* longer has the availability it asks for.
C3_LostRace ==
    \E p \in Procs : /\ st[p].pc = "hold_lock"
                     /\ ~QuantLockedByOther(p, st[p].q)
                     /\ quants[st[p].q].qty - LiveBound(st[p].q) < st[p].qty
                     /\ LiveBound(st[p].q) > 0

\* C4: a PENDING or CONFIRMED Hold whose expiry has passed contributes
\* nothing to available, committed, demand or Quant.held, and does not stop
\* a new Hold from binding; a Hold without expiry or not yet expired counts.
CountedSum(product, target, demandOnly) ==
    SumTo([i \in HoldIds |-> IF /\ holds[i].product = product
                                /\ holds[i].target_date = target
                                /\ (demandOnly => holds[i].quant = NoQuant)
                                /\ Counted(holds[i])
                             THEN holds[i].quantity ELSE 0], Len(holds))

EligibleBalance(product, target) ==
    SumTo([i \in QuantIds |-> IF quants[i].product = product /\ valid_for_date(quants[i], target)
                              THEN quants[i].qty ELSE 0], Len(quants))

C4_SumsSkipExpired ==
    /\ \A product \in Products, target \in HoldArgsD.target :
         /\ committed(product, target) = CountedSum(product, target, FALSE)
         /\ demand(product, target) = CountedSum(product, target, TRUE)
         /\ available(product, target)
              = EligibleBalance(product, target) - CountedSum(product, target, FALSE)
    /\ \A q \in QuantIds : held(q) = LiveBound(q)

C4_ExpiredDoesNotBlock ==
    \A p \in Procs :
        (/\ st[p].pc = "hold_lock"
         /\ st'[p] # st[p]
         /\ quants[st[p].q].qty - LiveBound(st[p].q) >= st[p].qty)
        => /\ holds' = Append(holds, holds'[Len(holds')])
           /\ holds'[Len(holds')].quant = st[p].q
           /\ holds'[Len(holds')].quantity = st[p].qty

C4_ExpiredHoldsIgnored == []C4_SumsSkipExpired /\ [][C4_ExpiredDoesNotBlock]_vars

\* A Quant carries an expired PENDING/CONFIRMED Hold and a counted Hold
\* which together exceed its balance.
C4_BoundOverExpired ==
    \E h1, h2 \in HoldIds :
        /\ holds[h1].quant # NoQuant
        /\ holds[h2].quant = holds[h1].quant
        /\ holds[h1].status \in {PENDING, CONFIRMED}
        /\ ~Counted(holds[h1])
        /\ Counted(holds[h2])
        /\ holds[h1].quantity + holds[h2].quantity > quants[holds[h1].quant].qty

\* C5: a Hold's status changes only PENDING->CONFIRMED, PENDING->RELEASED,
\* CONFIRMED->FULFILLED or CONFIRMED->RELEASED; FULFILLED and RELEASED are
\* terminal, and no operation removes a Hold.
AllowedTransitions ==
    {<<PENDING, CONFIRMED>>, <<PENDING, RELEASED>>,
     <<CONFIRMED, FULFILLED>>, <<CONFIRMED, RELEASED>>}

C5_StatusStep ==
    /\ Len(holds') >= Len(holds)
    /\ \A h \in HoldIds :
         holds'[h].status # holds[h].status
         => <<holds[h].status, holds'[h].status>> \in AllowedTransitions

C5_Lifecycle == [][C5_StatusStep]_vars

\* A Hold has reached a terminal status and an operation that would change
\* it has been offered to it since (the client is idle again).
C5_Terminal ==
    \E h \in HoldIds : /\ holds[h].status = FULFILLED
                       /\ holds[h].resolved_at # NoTime
                       /\ st["p1"].pc = "idle"

\* C6: for an active Hold of quantity q bound to a Quant eligible for its
\* (product, target date): creating it lowers available by q; confirming it
\* changes neither available nor any balance; releasing it raises available
\* by q and changes no balance; fulfilling it lowers the Quant's balance by
\* q, sets FULFILLED, and leaves available unchanged.
BoundEligible(hr) ==
    /\ hr.quant # NoQuant
    /\ valid_for_date(quants[hr.quant], hr.target_date)

C6_Create ==
    \A product \in Products, target \in SeqArgs.target :
        (/\ Len(holds') = Len(holds) + 1
         /\ Counted(holds'[Len(holds')]) /\ BoundEligible(holds'[Len(holds')])
         /\ holds'[Len(holds')].product = product
         /\ holds'[Len(holds')].target_date = target)
        => /\ available(product, target)'
                = available(product, target) - holds'[Len(holds')].quantity
           /\ quants' = quants

C6_Confirm ==
    \A h \in HoldIds, product \in Products, target \in SeqArgs.target :
        (/\ Counted(holds[h]) /\ BoundEligible(holds[h])
         /\ holds[h].product = product /\ holds[h].target_date = target
         /\ holds[h].status = PENDING /\ holds'[h].status = CONFIRMED)
        => /\ available(product, target)' = available(product, target)
           /\ quants' = quants

C6_Release ==
    \A h \in HoldIds, product \in Products, target \in SeqArgs.target :
        (/\ Counted(holds[h]) /\ BoundEligible(holds[h])
         /\ holds[h].product = product /\ holds[h].target_date = target
         /\ holds'[h].status = RELEASED)
        => /\ available(product, target)' = available(product, target) + holds[h].quantity
           /\ quants' = quants

C6_Fulfill ==
    \A p \in Procs, product \in Products, target \in SeqArgs.target :
        (/\ st[p].pc = "fulfill_quant" /\ st'[p].pc = "idle"
         /\ Counted(holds[st[p].h]) /\ BoundEligible(holds[st[p].h])
         /\ holds[st[p].h].product = product /\ holds[st[p].h].target_date = target)
        => LET h == st[p].h
               q == holds[h].quant
           IN /\ quants'[q].qty = quants[q].qty - holds[h].quantity
              /\ \A o \in QuantIds \ {q} : quants'[o] = quants[o]
              /\ holds'[h].status = FULFILLED
              /\ available(product, target)' = available(product, target)

C6_HoldEffects == [][C6_Create /\ C6_Confirm /\ C6_Release /\ C6_Fulfill]_vars

\* A Hold that never expires has been created, confirmed and fulfilled, and
\* its exit Move is in the ledger.
C6_Fulfilled ==
    \E h \in HoldIds, m \in MoveIds :
        /\ holds[h].status = FULFILLED
        /\ holds[h].expires_at = NoExpiry
        /\ moves[m].hold = h
        /\ moves[m].delta = 0 - holds[h].quantity

\* C7: only fulfill appends a Move for a Hold, and each Hold is fulfilled at
\* most once: two concurrent fulfills of one CONFIRMED Hold give exactly one
\* Move of -quantity and one INVALID_STATUS; create, confirm, release and
\* release_expired append no Move.
HoldMoves(h) == {m \in MoveIds : moves[m].hold = h}

C7_OneMovePerHold ==
    /\ \A m \in MoveIds : moves[m].hold # 0 => moves[m].hold \in HoldIds
    /\ \A h \in HoldIds :
         /\ Cardinality(HoldMoves(h)) <= 1
         /\ (holds[h].status = FULFILLED) <=> (HoldMoves(h) # {})
         /\ \A m \in HoldMoves(h) : /\ moves[m].delta = 0 - holds[h].quantity
                                    /\ moves[m].quant = holds[h].quant
                                    /\ moves[m].reason = "fulfill"
    /\ \A p, o \in Procs :
         (st[p].pc = "fulfill_quant" /\ st[o].pc = "fulfill_quant" /\ st[p].h = st[o].h)
         => p = o

C7_FulfillStep ==
    /\ (holds' # holds /\ ~(\E h \in HoldIds : holds'[h].status = FULFILLED
                                              /\ holds[h].status # FULFILLED))
       => moves' = moves
    /\ (last'.n # last.n /\ last'.op = "fulfill")
       => /\ (last'.code = "OK") <=> (Len(moves') = Len(moves) + 1)
          /\ last'.code # "OK" => UNCHANGED db
          /\ last'.code = "INVALID_STATUS"
             => \E h \in HoldIds : holds[h].status # CONFIRMED
          /\ last'.code = "OK"
             => \E h \in HoldIds : /\ holds[h].status = CONFIRMED
                                   /\ holds'[h].status = FULFILLED
                                   /\ moves' = Append(moves, NewMove(holds[h].quant,
                                                      0 - holds[h].quantity, "fulfill", h))

C7_FulfilledOnce == []C7_OneMovePerHold /\ [][C7_FulfillStep]_vars

\* A Hold has been fulfilled, its single exit Move is in the ledger, and the
\* last fulfill call on it failed with INVALID_STATUS.
C7_SecondFulfillRejected ==
    \E h \in HoldIds : /\ holds[h].status = FULFILLED
                       /\ Cardinality(HoldMoves(h)) = 1
                       /\ last.op = "fulfill"
                       /\ last.code = "INVALID_STATUS"

\* C8: at most one Quant exists per coordinate (product, position, target
\* date, batch), also when concurrent receive/plan/realize calls create a
\* coordinate and when the position or the target date is none.
C8_OneQuantPerCoordinate ==
    \A i, j \in QuantIds :
        (/\ quants[i].product = quants[j].product
         /\ quants[i].position = quants[j].position
         /\ quants[i].target_date = quants[j].target_date
         /\ quants[i].batch = quants[j].batch)
        => i = j

\* C9: the ledger is append-only: no step changes or removes a stored Move,
\* and an attempt to save a persisted Move or to delete a Move fails, leaving
\* the Move and every balance unchanged.
C9_LedgerStep ==
    /\ Len(moves') >= Len(moves)
    /\ \A m \in MoveIds : moves'[m] = moves[m]
    /\ Len(moves') = Len(moves) => \A q \in QuantIds : quants'[q].qty = quants[q].qty
    /\ (last'.n # last.n /\ last'.op \in {"Move.save", "Move.delete"})
       => /\ last'.code = "ValueError"
          /\ UNCHANGED db

C9_AppendOnly == [][C9_LedgerStep]_vars

\* The ledger holds Moves and the last call was a rejected attempt to
\* delete one of them.
C9_DeleteRejected ==
    /\ Len(moves) >= 2
    /\ last.op = "Move.delete"
    /\ last.code = "ValueError"

\* C10: issue(q, Quant) appends a Move of -q iff, under the Quant's lock,
\* balance minus counted Holds is at least q; otherwise it fails with
\* INSUFFICIENT_QUANTITY and changes nothing.  Hence concurrent issues never
\* jointly take more than balance minus counted Holds.
C10_IssueStep ==
    /\ \A p \in Procs :
         (st[p].pc = "idle" /\ st'[p].pc = "issue_move")
         => /\ quants[st'[p].q].qty - LiveBound(st'[p].q) >= st'[p].qty
            /\ UNCHANGED db
    /\ \A p \in Procs :
         (st[p].pc = "issue_move" /\ st'[p].pc = "idle")
         => LET q == st[p].q
            IN /\ quants[q].qty - LiveBound(q) >= st[p].qty
               /\ moves' = Append(moves, NewMove(q, 0 - st[p].qty, "issue", 0))
               /\ quants'[q].qty = quants[q].qty - st[p].qty
               /\ quants'[q].qty - LiveBound(q)' >= 0
               /\ holds' = holds
    /\ (Len(moves') > Len(moves) /\ moves'[Len(moves')].reason = "issue")
       => \E p \in Procs : st[p].pc = "issue_move" /\ st'[p].pc = "idle"
    /\ (last'.n # last.n /\ last'.op = "issue" /\ last'.code = "INSUFFICIENT_QUANTITY")
       => /\ UNCHANGED db
          /\ last'.available < last'.requested
          /\ \E q \in QuantIds : quants[q].qty - LiveBound(q) = last'.available

C10_IssueChecked == [][C10_IssueStep]_vars

\* An issue was refused although the balance alone covered it: counted
\* Holds took the difference.
C10_RefusedByHolds ==
    /\ last.op = "issue"
    /\ last.code = "INSUFFICIENT_QUANTITY"
    /\ \E q \in QuantIds : /\ quants[q].qty >= last.requested
                           /\ quants[q].qty - LiveBound(q) = last.available

\* A hold call ends with INSUFFICIENT_AVAILABLE in this step.
HoldFailed ==
    /\ last'.n # last.n
    /\ last'.op = "hold"
    /\ last'.code = "INSUFFICIENT_AVAILABLE"

\* C11 (as stated): every INSUFFICIENT_AVAILABLE failure of hold has
\* requested > available(P, T) at the time of the failure.
C11_FailsOnlyAboveAvailable ==
    [][HoldFailed => \A product \in Products, target \in HoldResultArgs.target :
                        last'.requested > available(product, target)]_vars

\* C11 (amended): hold fails with INSUFFICIENT_AVAILABLE only under a policy
\* other than demand_ok, and only when requested > available(P, T), or no
\* single eligible Quant has individual availability >= requested, or the
\* locked re-check on the Quant that allocation chose fails.
C11_FailureStep ==
    HoldFailed =>
       /\ policy # "demand_ok"
       /\ \A p \in Procs :
            st'[p] # st[p] =>
              CASE st[p].pc = "idle" ->
                     \E product \in Products, target \in HoldResultArgs.target :
                        last'.requested > available(product, target)
                [] st[p].pc = "hold_find" ->
                     /\ last'.requested = st[p].qty
                     /\ last'.requested <= st[p].av
                     /\ \A q \in QuantIds :
                          (quants[q].product = st[p].prod
                           /\ valid_for_date(quants[q], st[p].date))
                          => quants[q].qty - LiveBound(q) < st[p].qty
                [] st[p].pc = "hold_lock" ->
                     /\ last'.requested = st[p].qty
                     /\ quants[st[p].q].qty - LiveBound(st[p].q) < st[p].qty
                [] OTHER -> FALSE

C11_FailureCauses == [][C11_FailureStep]_vars

\* A hold failed although no Hold exists and the balances together cover
\* the request: no single Quant covers it.
C11_FragmentedStock ==
    /\ last.op = "hold"
    /\ last.code = "INSUFFICIENT_AVAILABLE"
    /\ holds = <<>>
    /\ \E product \in Products, target \in HoldResultArgs.target :
         available(product, target) >= last.requested
    /\ \A q \in QuantIds : quants[q].qty < last.requested

\* C12: when hold fails with INSUFFICIENT_AVAILABLE no Hold is created, and
\* the error carries available = the current available(P, T) and requested =
\* the requested quantity.
C12_FailureStep ==
    HoldFailed =>
       /\ holds' = holds
       /\ \E product \in Products, target \in HoldResultArgs.target :
            last'.available = available(product, target)
       /\ \A p \in Procs :
            (st'[p] # st[p] /\ st[p].pc # "idle") => last'.requested = st[p].qty

C12_ErrorCarriesCurrentAvailable == [][C12_FailureStep]_vars

\* A call of operation op on hold id last'.arg ends in this step.
Returned(op) == last'.n # last.n /\ last'.op = op

\* C13: confirm on a Hold that is not PENDING and release on a Hold that is
\* neither PENDING nor CONFIRMED (so also a second confirm or release) fail
\* with INVALID_STATUS and leave the Hold's status, resolution time and
\* release reason unchanged.
C13_ConfirmStep ==
    (Returned("confirm") /\ last'.arg \in HoldIds)
    => LET h == last'.arg
       IN /\ holds[h].status # PENDING
             => (last'.code = "INVALID_STATUS" /\ holds'[h] = holds[h])
          /\ holds[h].status = PENDING
             => (last'.code = "OK" /\ holds'[h].status = CONFIRMED)

C13_ReleaseStep ==
    (Returned("release") /\ last'.arg \in HoldIds)
    => LET h == last'.arg
       IN /\ holds[h].status \notin {PENDING, CONFIRMED}
             => (last'.code = "INVALID_STATUS" /\ holds'[h] = holds[h])
          /\ holds[h].status \in {PENDING, CONFIRMED}
             => (last'.code = "OK" /\ holds'[h].status = RELEASED)

C14_FulfillStep ==
    (Returned("fulfill") /\ last'.arg \in HoldIds)
    => LET h == last'.arg
       IN /\ holds[h].status # CONFIRMED
             => (last'.code = "INVALID_STATUS" /\ UNCHANGED db)
          /\ (holds[h].status = CONFIRMED /\ holds[h].quant = NoQuant)
             => (last'.code = "HOLD_IS_DEMAND" /\ UNCHANGED db)
          /\ (holds[h].status = CONFIRMED /\ holds[h].quant # NoQuant)
             => (last'.code = "OK" /\ Len(moves') = Len(moves) + 1)

C14_FulfillErrors == [][C14_FulfillStep]_vars

\* fulfill was refused with INVALID_STATUS on a PENDING Hold that has no
\* Quant.
C14_PendingDemandRefused ==
    /\ last.op = "fulfill"
    /\ last.code = "INVALID_STATUS"
    /\ last.arg \in HoldIds
    /\ holds[last.arg].status = PENDING
    /\ holds[last.arg].quant = NoQuant

\* C15: realize(P, D, a, pos) on a planned Quant of balance b appends a
\* reconciling Move of a - b on the planned Quant iff a # b, then a Move of
\* -a on the planned Quant and a Move of +a on the physical Quant (no target
\* date) at pos: the planned Quant ends at 0 and the physical balance rises
\* by a; every PENDING/CONFIRMED Hold of the planned Quant then references
\* the physical Quant and is otherwise unchanged, and no other Hold changes.
C15_RealizeStep ==
    \A p \in Procs :
        (st[p].pc = "realize_commit" /\ st'[p].pc = "idle")
        => LET planned == st[p].q
               a == st[p].qty
               b == quants[planned].qty
           IN \E phys \in 1..Len(quants') :
                /\ phys # planned
                /\ quants'[phys].product = st[p].prod
                /\ quants'[phys].position = st[p].pos
                /\ quants'[phys].target_date = NoDate
                /\ quants'[phys].qty = (IF phys \in QuantIds THEN quants[phys].qty ELSE 0) + a
                /\ quants'[planned].qty = 0
                /\ \A q \in QuantIds \ {planned, phys} : quants'[q] = quants[q]
                /\ moves' = moves
                            \o (IF a # b THEN <<NewMove(planned, a - b, "reconcile", 0)>>
                                ELSE <<>>)
                            \o <<NewMove(planned, 0 - a, "transfer", 0),
                                 NewMove(phys, a, "produced", 0)>>
                /\ Len(holds') = Len(holds)
                /\ \A h \in HoldIds :
                     holds'[h] = IF holds[h].quant = planned
                                    /\ (holds[h].status = PENDING \/ holds[h].status = CONFIRMED)
                                 THEN [holds[h] EXCEPT !.quant = phys]
                                 ELSE holds[h]

C15_Realize == [][C15_RealizeStep]_vars

\* A realize with a # b has run (its three Moves are in the ledger) and a
\* Hold made on the plan now sits on a physical Quant too small for it.
C15_HoldFollowedPlan ==
    \E m \in MoveIds, h \in HoldIds :
        /\ m + 2 <= Len(moves)
        /\ moves[m].reason = "reconcile"
        /\ moves[m + 1].reason = "transfer"
        /\ moves[m + 2].reason = "produced"
        /\ holds[h].quant = moves[m + 2].quant
        /\ holds[h].status \in {PENDING, CONFIRMED}
        /\ holds[h].quantity > quants[holds[h].quant].qty

\* The Holds a step changes.
Touched == {h \in HoldIds : holds'[h] # holds[h]}

\* C16: with several release_expired workers running concurrently with each
\* other and with confirm, release and fulfill, each expired Hold is moved
\* to RELEASED by at most one worker, the count a worker returns is the
\* number of Holds it moved, and a Hold whose row another in-flight
\* transaction has locked is left untouched by the sweeper.
C16_DisjointLocks ==
    \A p, o \in Procs : p # o => st[p].hlocks \cap st[o].hlocks = {}

C16_SweepStep ==
    /\ \A p \in Procs :
         (st[p].pc = "idle" /\ st'[p].pc = "release_expired_save")
         => /\ holds' = holds
            /\ \A o \in Procs \ {p} : st'[p].hlocks \cap st[o].hlocks = {}
    /\ \A p \in Procs :
         (st[p].pc = "release_expired_save" /\ st'[p].pc = "idle")
         => /\ Returned("release_expired")
            /\ last'.value = Cardinality(Touched)
            /\ Len(holds') = Len(holds)
            /\ \A h \in Touched :
                 /\ holds[h].status \in {PENDING, CONFIRMED}
                 /\ holds[h].expires_at # NoExpiry /\ holds[h].expires_at < now
                 /\ holds'[h].status = RELEASED
                 /\ \A o \in Procs \ {p} : h \notin st[o].hlocks
    /\ (Returned("release_expired") /\ \A p \in Procs : st[p].pc # "release_expired_save")
       => (last'.value = 0 /\ holds' = holds)

C16_ConcurrentSweepers == []C16_DisjointLocks /\ [][C16_SweepStep]_vars

\* A sweeper is in flight while another transaction holds the lock on an
\* expired PENDING/CONFIRMED Hold: the sweeper has skipped it.
C16_SkippedLocked ==
    \E p, o \in Procs :
        /\ p # o
        /\ st[p].pc = "release_expired_save"
        /\ \E h \in st[o].hlocks :
             /\ holds[h].status \in {PENDING, CONFIRMED}
             /\ holds[h].expires_at # NoExpiry /\ holds[h].expires_at < st[p].t

\* C17: running release_expired never changes available(P, T),
\* committed(P, T), demand(P, T) or any Quant's held amount: the Holds the
\* sweeper selects (PENDING/CONFIRMED with expires_at before now) are
\* exactly those the availability computation already leaves out as expired.
C17_SameSet ==
    \A h \in HoldIds :
        is_expired(holds[h])
        <=> (holds[h].status \in {PENDING, CONFIRMED} /\ ~is_active(holds[h]))

C17_SweepFrame ==
    (\E p \in Procs : \/ st[p].pc = "release_expired_save" /\ st'[p].pc = "idle"
                      \/ st[p].pc = "idle" /\ st'[p].pc = "release_expired_save")
    => /\ \A product \in Products, target \in SweepArgs.target :
            /\ available(product, target)' = available(product, target)
            /\ committed(product, target)' = committed(product, target)
            /\ demand(product, target)' = demand(product, target)
       /\ \A q \in QuantIds : held(q)' = held(q)
       /\ quants' = quants

C17_SweepKeepsAvailability == []C17_SameSet /\ [][C17_SweepFrame]_vars

\* The sweeper has released an expired Hold while a live Hold exists.
C17_Swept ==
    \E h, g \in HoldIds :
        /\ holds[h].status = RELEASED
        /\ holds[h].release_reason = "Expirado automaticamente"
        /\ is_active(holds[g])

\* The time the sweeper that returns in this step read.
SweepTime == IF st["p1"].pc = "release_expired_save" THEN st["p1"].t ELSE now

\* Hold row hr is PENDING or CONFIRMED with expires_at before time t.
ExpiredAt(hr, t) ==
    /\ hr.status = PENDING \/ hr.status = CONFIRMED
    /\ hr.expires_at # NoExpiry
    /\ hr.expires_at < t

\* C18: after release_expired returns with no concurrent activity, every
\* Hold that was PENDING or CONFIRMED with expires_at before the sweep time
\* is RELEASED with the resolution time and the standard reason recorded, and
\* every other Hold is unchanged.
C18_SweepStep ==
    Returned("release_expired")
    => /\ Len(holds') = Len(holds)
       /\ \A h \in HoldIds :
            holds'[h] = IF ExpiredAt(holds[h], SweepTime)
                        THEN [holds[h] EXCEPT !.status = RELEASED,
                                              !.resolved_at = SweepTime,
                                              !.release_reason = "Expirado automaticamente"]
                        ELSE holds[h]
       /\ last'.value = Cardinality({h \in HoldIds : ExpiredAt(holds[h], SweepTime)})
       /\ UNCHANGED <<quants, moves>>

C18_SweepResult == [][C18_SweepStep]_vars

\* A sweep released one Hold and left a second, counted Hold as it was.
C18_OneSweptOneKept ==
    /\ last.op = "release_expired"
    /\ last.value = 1
    /\ \E h, g \in HoldIds :
         /\ holds[h].status = RELEASED
         /\ holds[h].release_reason = "Expirado automaticamente"
         /\ holds[h].resolved_at # NoTime
         /\ Counted(holds[g])

\* C19: release_expired is idempotent and returns the number of Holds it
\* moved: once a sweep has returned no PENDING/CONFIRMED Hold that had
\* expired by its sweep time is left, and a call made while no such Hold
\* exists returns 0 at once and changes no Hold.
NoneExpired(hs, t) == \A h \in 1..Len(hs) : ~ExpiredAt(hs[h], t)

C19_SweepStep ==
    /\ Returned("release_expired")
       => /\ NoneExpired(holds', SweepTime)
          /\ last'.value = Cardinality(Touched)
    /\ NoneExpired(holds, now)
       => /\ st'["p1"].pc # "release_expired_save"
          /\ Returned("release_expired") => (last'.value = 0 /\ holds' = holds)

C19_Idempotent == [][C19_SweepStep]_vars

\* A sweep has released a Hold and a later sweep returned 0.
C19_SecondSweepEmpty ==
    /\ last.op = "release_expired"
    /\ last.value = 0
    /\ st["p1"].pc = "idle"
    /\ NoneExpired(holds, now)
    /\ \E h \in HoldIds : /\ holds[h].status = RELEASED
                          /\ holds[h].release_reason = "Expirado automaticamente"

\* Quant row qr is in the perishability window of target date T.
InWindow(qr, T) ==
    IF shelflife = NoShelf
    THEN qr.target_date = NoDate \/ qr.target_date <= T
    ELSE \/ qr.target_date = NoDate /\ qr.created >= T - shelflife
         \/ qr.target_date # NoDate /\ T - shelflife <= qr.target_date /\ qr.target_date <= T

RawTotal(product, T) ==
    SumTo([i \in QuantIds |-> IF quants[i].product = product /\ InWindow(quants[i], T)
                              THEN quants[i].qty ELSE 0], Len(quants))

\* C20: available(P, T) is the sum of the balances of P's Quants eligible
\* for T minus the quantities of all non-expired PENDING/CONFIRMED Holds of
\* P with target date T, bound or demand; committed(P, T) is that held sum
\* and demand(P, T) its part without Quant; so available + committed is the
\* eligible balance and demand <= committed.  Without Holds available is
\* the eligible balance; with nothing stored all three are 0.
C20_AvailabilityFormula ==
    \A product \in Products, T \in AvailArgs.target :
        /\ available(product, T) = RawTotal(product, T) - CountedSum(product, T, FALSE)
        /\ committed(product, T) = CountedSum(product, T, FALSE)
        /\ demand(product, T) = CountedSum(product, T, TRUE)
        /\ available(product, T) + committed(product, T) = RawTotal(product, T)
        /\ demand(product, T) <= committed(product, T)
        /\ holds = <<>> => available(product, T) = RawTotal(product, T)
        /\ (holds = <<>> /\ quants = <<>>)
           => /\ available(product, T) = 0
              /\ committed(product, T) = 0
              /\ demand(product, T) = 0

\* A bound Hold, a demand Hold and an expired Hold exist next to a Quant
\* that is eligible for one target date only.
C20_MixedHolds ==
    /\ \E h, g \in HoldIds :
         /\ Counted(holds[h]) /\ holds[h].quant # NoQuant
         /\ Counted(holds[g]) /\ holds[g].quant = NoQuant
    /\ \E q \in QuantIds, T, U \in AvailArgs.target :
         /\ quants[q].qty > 0
         /\ InWindow(quants[q], T) /\ ~InWindow(quants[q], U)

\* Quant row qr counts for target date T: with shelf life k a planned Quant
\* for date D counts when D <= T <= D + k and a physical Quant when it was
\* created on or after T - k; without shelf life a Quant counts when it is
\* physical or D <= T.
C21_Counts(qr, T) ==
    CASE shelflife = NoShelf -> qr.target_date = NoDate \/ qr.target_date <= T
      [] shelflife # NoShelf /\ qr.target_date = NoDate -> qr.created >= T - shelflife
      [] OTHER -> qr.target_date <= T /\ T <= qr.target_date + shelflife

C21_Total(product, T) ==
    SumTo([i \in QuantIds |-> IF quants[i].product = product /\ C21_Counts(quants[i], T)
                              THEN quants[i].qty ELSE 0], Len(quants))

\* available(P, T) counts exactly the Quants in the window of T; with shelf
\* life 0 stock planned for D counts on D and not on D - 1 or D + 1.
C21_AvailableWindow ==
    /\ \A product \in Products, T \in ShelfArgs.target :
         available(product, T) + committed(product, T) = C21_Total(product, T)
    /\ shelflife = 0 =>
         \A q \in QuantIds :
             quants[q].target_date # NoDate =>
                 /\ valid_for_date(quants[q], quants[q].target_date)
                 /\ ~valid_for_date(quants[q], quants[q].target_date - 1)
                 /\ ~valid_for_date(quants[q], quants[q].target_date + 1)

\* Allocation: the search of hold create finds a Quant exactly when a Quant
\* in the window of the target date has the quantity free, and the Quant it
\* finds is in the window.
C21_AllocationWindow ==
    (st["p1"].pc = "hold_find" /\ st'["p1"] # st["p1"])
    => LET s == st["p1"]
           fits == {q \in QuantIds : /\ quants[q].product = s.prod
                                     /\ C21_Counts(quants[q], s.date)
                                     /\ quants[q].qty - LiveBound(q) >= s.qty}
       IN IF fits = {} THEN st'["p1"].pc = "idle" /\ st'["p1"].q = NoQuant
          ELSE st'["p1"].pc = "hold_lock" /\ st'["p1"].q \in fits

\* C21: perishability window.  With shelf life k a planned Quant for date D
\* counts toward available(P, T) and allocation if and only if
\* D <= T <= D + k, and a physical Quant if and only if its creation date is
\* >= T - k; with no shelf life a Quant counts if and only if it is physical
\* or D <= T.  With k = 0 stock for D is available on D and unavailable on
\* D - 1 and D + 1.
C21_PerishabilityWindow == []C21_AvailableWindow /\ [][C21_AllocationWindow]_vars

\* A Hold for the day after the planned date of a product with shelf life 0
\* is a demand Hold although the planned Quant has the quantity, and a Hold
\* for the planned date is bound to it.
C21_ExpiredPlanSkipped ==
    /\ shelflife = 0
    /\ \E q \in QuantIds, h, g \in HoldIds :
         /\ quants[q].target_date # NoDate
         /\ holds[h].target_date = quants[q].target_date + 1
         /\ holds[h].quant = NoQuant
         /\ quants[q].qty - LiveBound(q) >= holds[h].quantity
         /\ holds[g].target_date = quants[q].target_date
         /\ holds[g].quant = q

\* The balance of product's Quants at position A that are eligible for T.
C22_BalanceAt(product, T, A) ==
    SumTo([i \in QuantIds |-> IF /\ quants[i].product = product
                                 /\ quants[i].position = A
                                 /\ InWindow(quants[i], T)
                              THEN quants[i].qty ELSE 0], Len(quants))

\* The counted Holds of product for T bound to Quants at position A.
C22_HeldAt(product, T, A) ==
    SumTo([i \in HoldIds |-> IF /\ holds[i].product = product
                                /\ holds[i].target_date = T
                                /\ Counted(holds[i])
                                /\ holds[i].quant # NoQuant
                                /\ quants[holds[i].quant].position = A
                             THEN holds[i].quantity ELSE 0], Len(holds))

\* C22: available(P, T, position=A) is not affected by Holds bound to
\* Quants at another position: it is the eligible balance at A minus the
\* counted Holds bound to Quants at A, while available(P, T) without a
\* position subtracts the Holds of all positions.
C22_PositionIsolated ==
    \A product \in Products, T \in PosArgs.target :
        /\ \A A \in PosArgs.pos :
             available_at(product, T, A)
                 = C22_BalanceAt(product, T, A) - C22_HeldAt(product, T, A)
        /\ available(product, T) = RawTotal(product, T) - CountedSum(product, T, FALSE)

\* The Hold row a step appends.
Appended(hr) == holds' = Append(holds, hr)

\* C23: under demand_ok hold create with a positive quantity never fails:
\* when no Quant can be bound (none sufficient, or the locked re-check
\* failed) it creates a PENDING Hold with no linked Quant; under any other
\* policy the same situation fails InsufficientAvailable and creates no Hold.
C23_HoldStep ==
    Returned("hold") =>
        LET new == holds'[Len(holds')]
        IN /\ last'.code \in {"OK", "INSUFFICIENT_AVAILABLE", "INVALID_QUANTITY"}
           /\ last'.code = "INVALID_QUANTITY" => last'.requested <= 0
           /\ policy = "demand_ok" => last'.code \in {"OK", "INVALID_QUANTITY"}
           /\ last'.code = "INSUFFICIENT_AVAILABLE" => policy # "demand_ok"
           /\ last'.code # "OK" => holds' = holds
           /\ last'.code = "OK" =>
                /\ Appended(new)
                /\ new.status = PENDING
                /\ new.quantity > 0
                /\ IF new.quant = NoQuant THEN policy = "demand_ok"
                   ELSE quants[new.quant].qty - LiveBound(new.quant) >= new.quantity
           /\ \A p \in Procs :
                (/\ st'[p] # st[p]
                 /\ \/ st[p].pc = "hold_find"
                    \/ /\ st[p].pc = "hold_lock"
                       /\ quants[st[p].q].qty - LiveBound(st[p].q) < st[p].qty)
                => IF policy = "demand_ok"
                   THEN last'.code = "OK" /\ new.quant = NoQuant
                   ELSE last'.code = "INSUFFICIENT_AVAILABLE"

C23_DemandOkNeverFails == [][C23_HoldStep]_vars

\* Under demand_ok a hold returned a demand Hold although a Quant of the
\* product has a positive balance, all of it held.
C23_DemandHoldCreated ==
    /\ policy = "demand_ok"
    /\ last.op = "hold" /\ last.code = "OK"
    /\ holds # <<>>
    /\ holds[Len(holds)].quant = NoQuant
    /\ holds[Len(holds)].status = PENDING
    /\ \E q \in QuantIds : quants[q].qty > 0 /\ LiveBound(q) = quants[q].qty

\* C24: under policy stock_only hold create never binds a Hold to a planned
\* Quant (one with a target date); a Hold is created only if physical stock
\* exists.
C24_StockOnlyBindsPhysical ==
    policy = "stock_only" =>
        \A h \in HoldIds :
            /\ holds[h].quant # NoQuant
            /\ quants[holds[h].quant].target_date = NoDate

\* A step that commits a planning Move: an entry on a Quant with a target date.
C25_Planned(q) ==
    /\ Len(moves') = Len(moves) + 1
    /\ moves'[Len(moves')].quant = q
    /\ moves'[Len(moves')].delta > 0
    /\ quants'[q].target_date # NoDate

\* C25: a demand Hold becomes linked when production is later planned for
\* its product and target date: after plan(q, P, T) the PENDING/CONFIRMED
\* demand Holds for (P, T) that the planned quantity covers reference the
\* planned Quant.
C25_PlanStep ==
    \A q \in 1..Len(quants') :
        C25_Planned(q) =>
            \A h \in HoldIds :
                (/\ holds[h].quant = NoQuant
                 /\ holds[h].status \in {PENDING, CONFIRMED}
                 /\ holds[h].product = quants'[q].product
                 /\ holds[h].target_date = quants'[q].target_date
                 /\ holds[h].quantity <= quants'[q].qty)
                => holds'[h].quant = q

C25_DemandLinkedOnPlan == [][C25_PlanStep]_vars

\* C26: available(P, T) is never negative in any state reached through
\* normal engine operations (receive, plan, hold create, confirm, release,
\* fulfill, issue, release_expired), for every product policy.
C26_AvailableNeverNegative ==
    \A product \in Products, T \in NormalArgs.target : available(product, T) >= 0

\* C27: adjust(quant, n, reason) with a non-empty reason leaves the balance
\* of the Quant equal to n when it commits, also when interleaved with
\* concurrent receive, issue or fulfill on the same Quant; it appends
\* exactly one Move of delta n - balance, or appends nothing and returns
\* none when n equals the balance read under the lock.
C27_AdjustStep ==
    \A p \in Procs :
        /\ (st[p].pc = "adjust_move" /\ st'[p] # st[p])
           => LET q == st[p].q
                  n == st[p].newq
              IN /\ quants'[q].qty = n
                 /\ n # quants[q].qty
                 /\ moves' = Append(moves, moves'[Len(moves')])
                 /\ moves'[Len(moves')].quant = q
                 /\ moves'[Len(moves')].delta = n - quants[q].qty
                 /\ last'.op = "adjust" /\ last'.code = "OK" /\ last'.value = Len(moves')
        /\ (st[p].pc = "idle" /\ st'[p].pc = "adjust_move")
           => st'[p].newq # quants[st'[p].q].qty
        /\ (st' = st /\ Returned("adjust") /\ last'.code = "OK")
           => /\ last'.value = 0
              /\ UNCHANGED db

C27_AdjustSetsBalance == [][C27_AdjustStep]_vars

\* An adjust committed a Move while the other client, which had fetched the
\* Quant before, waits to append to it.
C27_AdjustBesideAppend ==
    /\ last.op = "adjust" /\ last.code = "OK" /\ last.value = Len(moves)
    /\ moves # <<>>
    /\ \E p \in Procs : /\ st[p].pc = "receive_move"
                        /\ st[p].q = moves[Len(moves)].quant
                        /\ st[p].av # quants[st[p].q].qty

\* C28: recalculate(quant) returns the sum of the deltas of the Quant's
\* Moves and leaves the cached balance equal to that sum; when the cache
\* already agrees it writes nothing (so a second application changes
\* nothing).
C28_RecalculateStep ==
    \A p \in Procs :
        /\ (st[p].pc \in {"recalculate", "recalculate_save"} /\ st'[p].pc = "idle")
           => /\ last'.op = "recalculate"
              /\ last'.value = LedgerSum(st[p].q)
              /\ quants'[st[p].q].qty = LedgerSum(st[p].q)
        /\ (st[p].pc = "recalculate" /\ st'[p] # st[p]
            /\ quants[st[p].q].qty = LedgerSum(st[p].q))
           => st'[p].pc = "idle" /\ UNCHANGED db

C28_Recalculate == [][C28_RecalculateStep]_vars

\* The codes of the domain errors of the ledger and hold operations.
C29_Errors == {"INVALID_QUANTITY", "REASON_REQUIRED", "QUANT_NOT_FOUND",
               "INSUFFICIENT_QUANTITY", "INSUFFICIENT_AVAILABLE"}

\* C29: an operation that fails with a domain error leaves every Quant, Move
\* and Hold unchanged: InvalidQuantity for a non-positive quantity given to
\* receive, plan, issue or hold create; ReasonRequired for adjust or replan
\* with an empty reason; QuantNotFound for replan or realize when no Quant
\* exists at the planned coordinate (none is created); InsufficientQuantity
\* and InsufficientAvailable likewise.  Only a step that returns success
\* changes a row, and no row records a non-positive quantity.
C29_Step ==
    /\ (last'.n # last.n /\ last'.code \in C29_Errors) => UNCHANGED db
    /\ db' # db => (last'.n # last.n /\ last'.code = "OK")
    /\ (last'.n # last.n /\ last'.code = "INVALID_QUANTITY")
       => last'.op \in {"receive", "issue", "hold"} /\ last'.requested <= 0
    /\ (last'.n # last.n /\ last'.code = "REASON_REQUIRED") => last'.op \in {"adjust", "replan"}
    /\ (last'.n # last.n /\ last'.code = "QUANT_NOT_FOUND")
       => /\ last'.op \in {"replan", "realize"}
          /\ \E d \in ErrArgs.date \ {NoDate} :
               \A q \in QuantIds : ~(quants[q].position = NoPos /\ quants[q].target_date = d)
    /\ Len(moves') > Len(moves)
       => \A i \in (Len(moves) + 1)..Len(moves') :
            /\ moves'[i].reason = "receive" => moves'[i].delta > 0
            /\ moves'[i].reason = "issue" => moves'[i].delta < 0
    /\ Len(holds') > Len(holds) => holds'[Len(holds')].quantity > 0

C29_FailuresChangeNothing == [][C29_Step]_vars

\* realize failed QuantNotFound while the product has stock elsewhere, and
\* no Quant exists at a planned coordinate.
C29_RealizeWithoutPlan ==
    /\ last.op = "realize" /\ last.code = "QUANT_NOT_FOUND"
    /\ quants # <<>>
    /\ \A q \in QuantIds : quants[q].target_date = NoDate \/ quants[q].position # NoPos

\* The codes of the structured domain errors.
C30_DomainCodes == {"INVALID_QUANTITY", "INSUFFICIENT_QUANTITY", "INSUFFICIENT_AVAILABLE",
                    "INVALID_HOLD", "INVALID_STATUS", "HOLD_IS_DEMAND", "REASON_REQUIRED",
                    "QUANT_NOT_FOUND", "IMMUTABLE_RECORD"}

\* C30: every failure an operation reports to its caller is a structured
\* domain error carrying one of the domain codes, never a generic exception;
\* this includes the attempt to save or delete a persisted Move
\* (ImmutableRecordError).
C30_StructuredErrors == last.code \in {"none", "OK"} \cup C30_DomainCodes
\* C31: a hold_id parses back to the pk of its Hold and distinct pks have
\* distinct hold_ids; confirm, release and fulfill called with a string that
\* is not the hold_id of an existing Hold fail with INVALID_HOLD and change
\* no row.
C31_WellFormed(id) == \E h \in HoldIds : id = hold_id(h)

C31_RoundTrip ==
    \A a, b \in 1..MaxPk :
        /\ _parse_hold_id(hold_id(a)) = [ok |-> TRUE, pk |-> a]
        /\ a # b => hold_id(a) # hold_id(b)

C31_GetPcs == {"confirm_get", "release_get", "fulfill_get"}

C31_Step ==
    /\ C31_RoundTrip
    /\ \A p \in Procs :
         st[p].pc \in C31_GetPcs /\ st'[p] # st[p] /\ ~C31_WellFormed(st[p].id)
             => /\ last'.n # last.n
                /\ last'.code = "INVALID_HOLD"
                /\ db' = db

C31_HoldIdStrict == [][C31_Step]_vars

\* C32: no step removes a Hold or changes the product, quantity, target
\* date or expiry of an existing Hold; the linked Quant of a Hold changes
\* only in the commit of realize, which changes nothing else of it; status,
\* resolution time and release reason change only in confirm, release,
\* fulfill and release_expired, which leave the linked Quant alone.
C32_Acting(pcs) ==
    \E p \in Procs :
        st[p].pc \in pcs /\ st'[p] = Idle /\ \A o \in Procs \ {p} : st'[o] = st[o]

C32_Resolution(hr) == <<hr.status, hr.resolved_at, hr.release_reason>>

C32_Step ==
    /\ Len(holds') >= Len(holds)
    /\ \A h \in HoldIds :
         /\ holds'[h].product = holds[h].product
         /\ holds'[h].quantity = holds[h].quantity
         /\ holds'[h].target_date = holds[h].target_date
         /\ holds'[h].expires_at = holds[h].expires_at
         /\ holds'[h].quant # holds[h].quant
                => /\ C32_Acting({"realize_commit"})
                   /\ C32_Resolution(holds'[h]) = C32_Resolution(holds[h])
         /\ C32_Resolution(holds'[h]) # C32_Resolution(holds[h])
                => /\ C32_Acting({"idle", "fulfill_quant", "release_expired_save"})
                   /\ Len(holds') = Len(holds)
                   /\ \/ holds'[h].status = CONFIRMED /\ moves' = moves
                      \/ holds'[h].status = RELEASED /\ moves' = moves
                      \/ /\ holds'[h].status = FULFILLED
                         /\ moves' = Append(moves, NewMove(holds[h].quant,
                                                           0 - holds[h].quantity, "fulfill", h))

C33_BalanceCoversLiveHolds ==
    \A q \in QuantIds : quants[q].qty >= 0 /\ quants[q].qty >= LiveBound(q)

\* C34: no two open transactions wait for each other's row locks; in
\* particular fulfill (Hold, then its Quant) and realize (planned Quant, then
\* the Holds attached to it) never block each other.
C34_NoWaitForCycle == \A p, o \in Procs : ~(WaitsFor(p, o) /\ WaitsFor(o, p))

\* C35: every operation writes in one step, the commit that ends it: a step
\* that changes a row leaves no client in the middle of the operation that
\* wrote; the exit Move of fulfill appears together with the FULFILLED
\* status; the exit of realize from the planned Quant appears together with
\* the entry on the physical Quant and the re-pointing of the Holds; the
\* Holds one release_expired call selected are released together.
C35_NewMoves == SubSeq(moves', Len(moves) + 1, Len(moves'))

C35_Step ==
    /\ db' # db => \E p \in Procs :
                      /\ st'[p] = Idle
                      /\ \A o \in Procs \ {p} : st'[o] = st[o]
    /\ \A h \in HoldIds :
         (holds'[h].status = FULFILLED /\ holds[h].status # FULFILLED)
            <=> moves' = Append(moves, NewMove(holds[h].quant, 0 - holds[h].quantity,
                                               "fulfill", h))
    /\ \A i \in 1..Len(C35_NewMoves) :
         C35_NewMoves[i].reason = "transfer"
            => /\ i + 1 = Len(C35_NewMoves)
               /\ C35_NewMoves[i + 1].reason = "produced"
               /\ C35_NewMoves[i + 1].delta = 0 - C35_NewMoves[i].delta
               /\ quants'[C35_NewMoves[i + 1].quant].target_date = NoDate
               /\ \A h \in holds_to_transfer(C35_NewMoves[i].quant) :
                      holds'[h].quant = C35_NewMoves[i + 1].quant
    /\ \A i \in 1..Len(C35_NewMoves) :
         C35_NewMoves[i].reason = "produced"
            => i > 1 /\ C35_NewMoves[i - 1].reason = "transfer"
    /\ \A p \in Procs :
         st[p].pc = "release_expired_save" /\ st'[p] # st[p]
            => \A h \in st[p].hlocks : holds'[h].status = RELEASED

C36_Sufficient(product, T, quantity) ==
    {i \in QuantIds : /\ quants[i].product = product
                      /\ InWindow(quants[i], T)
                      /\ quants[i].qty - LiveBound(i) >= quantity}

C36_Step ==
    \A p \in Procs :
        LET E == C36_Sufficient(st[p].prod, st[p].date, st[p].qty)
            created == Len(holds') = Len(holds) + 1
        IN /\ st[p].pc = "hold_find" /\ st'[p] # st[p] =>
                IF E = {}
                THEN /\ st'[p] = Idle
                     /\ IF policy = "demand_ok"
                        THEN created /\ holds'[Len(holds')].quant = NoQuant
                        ELSE holds' = holds
                ELSE /\ st'[p].pc = "hold_lock"
                     /\ st'[p].q \in E
                     /\ \A j \in E : st'[p].q <= j
                     /\ holds' = holds
           /\ st[p].pc = "hold_lock" /\ st'[p] # st[p] /\ created =>
                \/ holds'[Len(holds')].quant = NoQuant
                \/ /\ E # {}
                   /\ holds'[Len(holds')].quant \in E
                   /\ \A j \in E : holds'[Len(holds')].quant <= j

C36_FifoNoSplit == [][C36_Step]_vars

\* A Hold of 2 bound to the second Quant although the first, with a balance
\* of 1, is in the window: the first could not cover it alone.
C36_SkippedOlder ==
    \E h \in HoldIds :
        /\ holds[h].quant = 2
        /\ holds[h].quantity = 2
        /\ InWindow(quants[1], holds[h].target_date)
        /\ quants[1].qty = 1

\* C37: release_expired never waits for a row lock: a client that is idle
\* can always run its selection, whatever rows other transactions have
\* locked, a sweep that has selected rows can always save them and commit,
\* that step ends the call, and a sweep in flight waits for no transaction.
C37_NeverBlocked ==
    \A p \in Procs :
        /\ st[p].pc = "idle" => ENABLED release_expired(p)
        /\ st[p].pc = "release_expired_save"
              => /\ ENABLED release_expired_save(p)
                 /\ \A o \in Procs : ~WaitsFor(p, o)

C37_SaveEnds ==
    \A p \in Procs :
        st[p].pc = "release_expired_save" /\ st'[p] # st[p] => st'[p] = Idle

C37_SweepNeverWaits == []C37_NeverBlocked /\ [][C37_SaveEnds]_vars

\* A sweep has committed while another transaction still holds the lock of
\* an expired CONFIRMED Hold: the sweep ended without that row.
C37_EndedWithoutLockedRow ==
    \E p, o \in Procs :
        /\ st[p].pc = "idle"
        /\ \E h \in HoldIds : /\ holds[h].status = RELEASED
                              /\ holds[h].release_reason = "Expirado automaticamente"
        /\ \E h \in st[o].hlocks : /\ holds[h].status = CONFIRMED
                                   /\ is_expired(holds[h])

\* C38: when realize commits, no PENDING/CONFIRMED Hold is left on the
\* planned Quant, also when hold create runs concurrently on that Quant;
\* and no Hold is bound to a realized planned Quant whose balance is 0.
C38_Realized(q) == \E i \in MoveIds : moves[i].quant = q /\ moves[i].reason = "transfer"

C38_Step ==
    /\ \A p \in Procs :
         st[p].pc = "realize_commit" /\ st'[p] = Idle =>
             \A h \in 1..Len(holds') :
                 holds'[h].status \in {PENDING, CONFIRMED} => holds'[h].quant # st[p].q
    /\ \A h \in 1..Len(holds') :
         LET q == holds'[h].quant
         IN /\ h \notin HoldIds \/ holds[h].quant # q
            /\ q \in QuantIds
            /\ C38_Realized(q)
            => quants[q].qty > 0

C38_RealizedPlanStaysFree == [][C38_Step]_vars

\* realize has committed while a hold create that chose the planned Quant
\* is still waiting to lock it.
C38_HoldRacedRealize ==
    \E o \in Procs :
        /\ st[o].pc = "hold_lock"
        /\ C38_Realized(st[o].q)
        /\ quants[st[o].q].qty = 0

\* C39: a realize whose actual quantity equals the planned balance leaves
\* available(P, T) for the planned date T as it was, whatever the shelf life
\* of the product and whether or not the physical Quant existed.
C39_Step ==
    \A p \in Procs :
        /\ st[p].pc = "realize_commit"
        /\ st'[p] = Idle
        /\ st[p].qty = quants[st[p].q].qty
        => \A product \in {st[p].prod}, T \in {quants[st[p].q].target_date} :
               available(product, T)' = available(product, T)

C39_RealizeKeepsAvailable == [][C39_Step]_vars

\* C40: when the product has a single Quant and no counted Hold without a
\* Quant, available(P, T) equals the Quant's balance minus all its
\* non-expired PENDING/CONFIRMED Holds, whatever their target dates, for
\* every target date T whose window contains the Quant.
C40_NoDemand == \A h \in HoldIds : Counted(holds[h]) => holds[h].quant # NoQuant

C40_SingleQuantAvailability ==
    \A product \in Products, T \in ShelfArgs.target :
        /\ Len(quants) = 1
        /\ quants[1].product = product
        /\ InWindow(quants[1], T)
        /\ C40_NoDemand
        => available(product, T) = quants[1].qty - LiveBound(1)

====
